---- MODULE Spec2Model ----
(***************************************************************************)
(* Model of the hybrid recommendation engine of bibliotrack                *)
(* (books/hybrid_recommendation.py) together with the store operations of  *)
(* books/views.py that feed it and the Django cache entry                  *)
(* 'recommendation_matrices' it keeps.                                     *)
(*                                                                         *)
(* Conventions.  A database NULL, Python None and the id 0 are all written *)
(* NoId (0): the code only tests them for truthiness.  An item key         *)
(* f"book_{id}" is the pair <<"book", id>>, f"user_book_{id}" the pair     *)
(* <<"user_book", id>>.  Times are seconds.  Similarities are squared      *)
(* cosines scaled by SimScale, so that score > 0.1 reads > SimThreshold.   *)
(***************************************************************************)
EXTENDS Integers, Sequences, FiniteSets, TLC

\* ------------------------------------------------------------------ bounds
MaxOrders    == 1      \* order rows present at once
MaxReviews   == 1      \* review rows present at once
MaxTime      == 1800   \* the clock stops here

TickSeconds == 15 * 60      \* the clock advances in steps of this size

BookIds     == {1, 2}       \* primary keys a Book row may get
UserBookIds == {1}          \* primary keys a UserBook row may get
UserIds     == {1, 2}       \* users that call; user 2 never buys
Buyers      == {1}
TopNs       == {-1, 0, 1, 4}
Ratings     == {2, 5}

\* The words the TF-IDF vectorizer keeps of a catalog row's title, author, genre,
\* category and description: a row of English stop words only keeps none.
TermChoices == {{}, {"fantasy", "magic"}}

NoId == 0

\* ------------------------------------------------------------------ state
VARIABLES
    books,        \* ids of the Book rows
    bookTerms,    \* the words of each Book row's text
    nextBookId,   \* next primary key of Book
    userBooks,    \* ids of the UserBook rows
    available,    \* ids of the UserBook rows with is_available = True
    nextUserBookId,
    orders,       \* Order rows in primary-key order
    reviews,      \* Review rows in primary-key order
    cache,        \* the cache entry 'recommendation_matrices', or NoEntry
    now,          \* time.time()
    cacheHist,    \* last event on the cache entry (history)
    lastSetAt,    \* time of the last cache.set, -1 if none (history)
    last,         \* the call that has just returned, or NoCall
    race,         \* the requests in flight, each with its position and its locals
    pay,          \* orders, stock and PaymentEvent rows of the payment endpoints
    forum,        \* like records and like_count of the book-club posts and comments
    ai,           \* model file and per-book cache of ai_recommendation
    addr          \* Address rows of accounts, by primary key

vars == <<books, bookTerms, nextBookId, userBooks, available, nextUserBookId, orders,
          reviews, cache, now, cacheHist, lastSetAt, last, race, pay, forum, ai, addr>>

storeVars == <<books, bookTerms, nextBookId, userBooks, available, nextUserBookId, orders, reviews>>

\* the state of the other subsystems, which the recommendation entry points and
\* the catalog operations leave alone
auxVars == <<race, pay, forum, ai, addr>>

NoEntry  == [present |-> FALSE]
NoBundle == [built |-> FALSE]
NoCall   == [op |-> "none"]

\* the other subsystems at rest: no request in flight, no order, payment event,
\* post or comment, no model file and no per-book cache entry
NoRace  == <<>>
NoPay   == [orders |-> <<>>, stock |-> <<>>, events |-> <<>>]
NoForum == [postLikes |-> {}, postCount |-> <<>>, commentLikes |-> {}, commentCount |-> <<>>]
NoAi    == [model |-> [present |-> FALSE], cache |-> <<>>]
NoAddr  == <<>>

AuxIdle == race = NoRace /\ pay = NoPay /\ forum = NoForum /\ ai = NoAi /\ addr = NoAddr

\* ------------------------------------------------------- Python sequences
\* s[:n]
Slice(s, n) ==
    LET k == IF n >= 0 THEN (IF n < Len(s) THEN n ELSE Len(s))
             ELSE (IF Len(s) + n > 0 THEN Len(s) + n ELSE 0)
    IN  SubSeq(s, 1, k)

Range(s) == {s[i] : i \in DOMAIN s}

\* list.index(x): position of the first occurrence, 0 for ValueError
IndexOf(s, x) ==
    IF x \in Range(s) THEN CHOOSE i \in DOMAIN s : s[i] = x /\ \A j \in 1..(i - 1) : s[j] # x
    ELSE 0

\* the elements of a set of integers in ascending order
RECURSIVE Ascending(_)
Ascending(S) ==
    IF S = {} THEN <<>>
    ELSE LET m == CHOOSE x \in S : \A y \in S : x <= y
         IN  <<m>> \o Ascending(S \ {m})

\* list.sort(key=score, reverse=True) on a list of <<item, score>> pairs: stable,
\* equal scores keep their order
RECURSIVE InsertDesc(_, _)
InsertDesc(sorted, x) ==
    IF sorted = <<>> THEN <<x>>
    ELSE IF Head(sorted)[2] >= x[2] THEN <<Head(sorted)>> \o InsertDesc(Tail(sorted), x)
    ELSE <<x>> \o sorted

RECURSIVE SortDesc(_)
SortDesc(s) ==
    IF s = <<>> THEN <<>>
    ELSE InsertDesc(SortDesc(SubSeq(s, 1, Len(s) - 1)), s[Len(s)])

\* ------------------------------------------------------------- the store
\* the words of a listing's text
UserBookTerms(k) == {"fantasy", "magic", "dragon"}

\* a model instance handed to the caller
BookObj(b)     == <<"Book", b>>
UserBookObj(k) == <<"UserBook", k>>

BookKey(b)     == <<"book", b>>
UserBookKey(k) == <<"user_book", k>>

CountedStatuses == {"delivered", "confirmed"}

\* Order(user, book, user_book, status); book and user_book are nullable
OrderRow(u, b, k, st) == [user |-> u, book |-> b, user_book |-> k, status |-> st]

\* admin: a Book row is added
AddBook(terms) ==
    /\ nextBookId \in BookIds
    /\ books' = books \cup {nextBookId}
    /\ bookTerms' = [b \in books \cup {nextBookId} |->
                        IF b = nextBookId THEN terms ELSE bookTerms[b]]
    /\ nextBookId' = nextBookId + 1
    /\ last' = NoCall
    /\ UNCHANGED auxVars
    /\ UNCHANGED <<userBooks, available, nextUserBookId, orders, reviews,
                   cache, now, cacheHist, lastSetAt>>

\* admin: a Book row is deleted; Order.book and Review.book cascade
DeleteBook(b) ==
    /\ b \in books
    /\ books' = books \ {b}
    /\ bookTerms' = [c \in books \ {b} |-> bookTerms[c]]
    /\ orders' = SelectSeq(orders, LAMBDA o : o.book # b)
    /\ reviews' = SelectSeq(reviews, LAMBDA r : r.book # b)
    /\ last' = NoCall
    /\ UNCHANGED auxVars
    /\ UNCHANGED <<nextBookId, userBooks, available, nextUserBookId,
                   cache, now, cacheHist, lastSetAt>>

\* sell_book (POST)
SellBook ==
    /\ nextUserBookId \in UserBookIds
    /\ userBooks' = userBooks \cup {nextUserBookId}
    /\ available' = available \cup {nextUserBookId}
    /\ nextUserBookId' = nextUserBookId + 1
    /\ last' = NoCall
    /\ UNCHANGED auxVars
    /\ UNCHANGED <<books, bookTerms, nextBookId, orders, reviews,
                   cache, now, cacheHist, lastSetAt>>

\* delete_listing; Order.user_book cascades
DeleteListing(k) ==
    /\ k \in userBooks
    /\ userBooks' = userBooks \ {k}
    /\ available' = available \ {k}
    /\ orders' = SelectSeq(orders, LAMBDA o : o.user_book # k)
    /\ last' = NoCall
    /\ UNCHANGED auxVars
    /\ UNCHANGED <<books, bookTerms, nextBookId, nextUserBookId, reviews,
                   cache, now, cacheHist, lastSetAt>>

\* buy_now
BuyNow(u, b) ==
    /\ b \in books
    /\ Len(orders) < MaxOrders
    /\ orders' = Append(orders, OrderRow(u, b, NoId, "confirmed"))
    /\ last' = NoCall
    /\ UNCHANGED auxVars
    /\ UNCHANGED <<books, bookTerms, nextBookId, userBooks, available, nextUserBookId, reviews,
                   cache, now, cacheHist, lastSetAt>>

\* buy_user_book (POST)
BuyUserBook(u, k) ==
    /\ k \in userBooks /\ k \in available
    /\ Len(orders) < MaxOrders
    /\ orders' = Append(orders, OrderRow(u, NoId, k, "confirmed"))
    /\ available' = available \ {k}
    /\ last' = NoCall
    /\ UNCHANGED auxVars
    /\ UNCHANGED <<books, bookTerms, nextBookId, userBooks, nextUserBookId, reviews,
                   cache, now, cacheHist, lastSetAt>>

\* add_review (POST with rating and comment)
AddReview(b, r) ==
    /\ b \in books
    /\ Len(reviews) < MaxReviews
    /\ reviews' = Append(reviews, [book |-> b, rating |-> r])
    /\ last' = NoCall
    /\ UNCHANGED auxVars
    /\ UNCHANGED <<books, bookTerms, nextBookId, userBooks, available, nextUserBookId, orders,
                   cache, now, cacheHist, lastSetAt>>

\* time passes
Tick ==
    /\ now + TickSeconds <= MaxTime
    /\ now' = now + TickSeconds
    /\ last' = NoCall
    /\ UNCHANGED auxVars
    /\ UNCHANGED <<storeVars, cache, cacheHist, lastSetAt>>

\* ------------------------------------------------------ get_popular_books
\* Count('order') over the two LEFT JOINs of the annotate(): one joined row per
\* (order, review) pair, or per order when the book has no review
TotalOrders(b) ==
    LET nOrders  == Cardinality({i \in DOMAIN orders : orders[i].book = b})
        nReviews == Cardinality({i \in DOMAIN reviews : reviews[i].book = b})
    IN  nOrders * (IF nReviews = 0 THEN 1 ELSE nReviews)

RECURSIVE SumRatings(_, _)
SumRatings(rs, b) ==
    IF rs = <<>> THEN 0
    ELSE (IF Head(rs).book = b THEN Head(rs).rating ELSE 0) + SumRatings(Tail(rs), b)

\* Avg('review__rating') as <<sum, count>>; count 0 is NULL
AvgRating(b) ==
    <<SumRatings(reviews, b), Cardinality({i \in DOMAIN reviews : reviews[i].book = b})>>

\* a sorts strictly before b under order_by('-total_orders', '-avg_rating');
\* a NULL average sorts after every value
SortsBefore(a, b) ==
    \/ TotalOrders(a) > TotalOrders(b)
    \/ /\ TotalOrders(a) = TotalOrders(b)
       /\ AvgRating(a)[2] > 0
       /\ \/ AvgRating(b)[2] = 0
          \/ AvgRating(a)[1] * AvgRating(b)[2] > AvgRating(b)[1] * AvgRating(a)[2]

\* the orders the database may return the annotated books in: rows with equal
\* sort keys come in any order
PopularOrders ==
    {p \in [1..Cardinality(books) -> books] :
        /\ \A i, j \in DOMAIN p : i # j => p[i] # p[j]
        /\ \A i, j \in DOMAIN p : i < j => ~SortsBefore(p[j], p[i])}

\* GetPopularBooks without the [:top_n] slice: the whole ordered catalog
GetPopularBooksUnsliced(top_n) ==
    IF top_n < 0 THEN {}
    ELSE {[i \in 1..Len(p) |-> BookObj(p[i])] : p \in PopularOrders}

\* get_popular_books(top_n): the lists it may return; a negative slice bound
\* makes the queryset raise, which is the empty set here
GetPopularBooks(top_n) ==
    IF top_n < 0 THEN {}
    ELSE {[i \in 1..(IF top_n < Len(p) THEN top_n ELSE Len(p)) |-> BookObj(p[i])] :
             p \in PopularOrders}

\* ------------------------------------------------- build_user_item_matrix
EmptyFrame == [index |-> <<>>, columns |-> <<>>, cells |-> {}]

\* one pass of the loop over the counted orders: the cell of (user, item) is
\* set to 1.0; rows and columns appear in the order they are first written
RECURSIVE UserItemData(_, _)
UserItemData(os, df) ==
    IF os = <<>> THEN df
    ELSE LET o   == Head(os)
             key == IF o.book # NoId THEN BookKey(o.book) ELSE UserBookKey(o.user_book)
         IN  IF o.book = NoId /\ o.user_book = NoId THEN UserItemData(Tail(os), df)
             ELSE UserItemData(Tail(os),
                    [index   |-> IF o.user \in Range(df.index) THEN df.index
                                 ELSE Append(df.index, o.user),
                     columns |-> IF key \in Range(df.columns) THEN df.columns
                                 ELSE Append(df.columns, key),
                     cells   |-> df.cells \cup {<<o.user, key>>}])

\* the DataFrame: cells holds the (row, column) pairs of value 1.0, every other
\* cell is 0 after fillna(0)
BuildUserItemMatrix ==
    UserItemData(SelectSeq(orders, LAMBDA o : o.status \in CountedStatuses), EmptyFrame)

\* -------------------------------------------------- build_content_features
FeatureRow(key, terms, type) == [id |-> key, terms |-> terms, type |-> type]

RECURSIVE BookFeatures(_)
BookFeatures(bs) ==
    IF bs = <<>> THEN <<>>
    ELSE <<FeatureRow(BookKey(Head(bs)), bookTerms[Head(bs)], "book")>>
         \o BookFeatures(Tail(bs))

RECURSIVE UserBookFeatures(_)
UserBookFeatures(ks) ==
    IF ks = <<>> THEN <<>>
    ELSE <<FeatureRow(UserBookKey(Head(ks)), UserBookTerms(Head(ks)), "user_book")>>
         \o UserBookFeatures(Tail(ks))

\* every Book, then every UserBook with is_available = True
BuildContentFeatures ==
    BookFeatures(Ascending(books)) \o UserBookFeatures(Ascending(available))

\* ------------------------------------------- calculate_content_similarity
SimScale     == 100 * 100
SimThreshold == SimScale \div 100     \* 0.1 squared, scaled by SimScale

\* cosine_similarity of two rows of the TF-IDF matrix, squared and scaled; a row
\* without a term is the zero vector, whose similarity to anything is 0
Cosine(ta, tb) ==
    IF ta = {} \/ tb = {} THEN 0
    ELSE (SimScale * Cardinality(ta \cap tb) * Cardinality(ta \cap tb))
             \div (Cardinality(ta) * Cardinality(tb))

\* TfidfVectorizer.fit_transform raises ValueError on an empty vocabulary (no row,
\* or no row with a word that is not a stop word); ok is FALSE then
CalculateContentSimilarity(content_df) ==
    IF \A i \in DOMAIN content_df : content_df[i].terms = {}
    THEN [ok |-> FALSE, similarity_matrix |-> <<>>, item_ids |-> <<>>]
    ELSE [ok |-> TRUE,
          similarity_matrix |->
              [i \in DOMAIN content_df |->
                  [j \in DOMAIN content_df |-> Cosine(content_df[i].terms, content_df[j].terms)]],
          item_ids |-> [i \in DOMAIN content_df |-> content_df[i].id]]

\* ------------------------------------------------------------- the cache
CacheTimeout == 60 * 30

\* CacheGet with the expiry test off by one: an entry is still served at the very
\* second it expires
CacheGetInclusive ==
    IF cache.present /\ now <= cache.expires THEN cache.value ELSE NoBundle

\* cache.get('recommendation_matrices'): the value, or NoBundle when there is no
\* entry or the entry has expired
CacheGet ==
    IF cache.present /\ now < cache.expires THEN cache.value ELSE NoBundle

\* the state of the entry as a caller finds it
EntryState ==
    IF ~cache.present THEN "MISSING"
    ELSE IF now < cache.expires THEN "FRESH" ELSE "STALE"

\* cache.set(key, value, timeout)
CacheSet(value, timeout) == [present |-> TRUE, value |-> value, expires |-> now + timeout]

\* BuildBundle patching an entry that is still stored (expired) instead of
\* replacing it: the interaction matrix of the old entry is kept
BuildBundlePatched(build) ==
    LET content_df == BuildContentFeatures
        sim        == CalculateContentSimilarity(content_df)
    IN  [built |-> TRUE,
         ok    |-> sim.ok,
         user_item_df      |-> IF cache.present THEN cache.value.user_item_df
                               ELSE [build |-> build, df |-> BuildUserItemMatrix],
         content_df        |-> [build |-> build, rows |-> content_df],
         similarity_matrix |-> [build |-> build, m |-> sim.similarity_matrix],
         item_ids          |-> [build |-> build, ids |-> sim.item_ids]]

\* The dict hybrid_recommendation builds on a miss.  Each component carries the
\* time of the build that produced it.
BuildBundle(build) ==
    LET content_df == BuildContentFeatures
        sim        == CalculateContentSimilarity(content_df)
    IN  [built |-> TRUE,
         ok    |-> sim.ok,
         user_item_df      |-> [build |-> build, df |-> BuildUserItemMatrix],
         content_df        |-> [build |-> build, rows |-> content_df],
         similarity_matrix |-> [build |-> build, m |-> sim.similarity_matrix],
         item_ids          |-> [build |-> build, ids |-> sim.item_ids]]

\* --------------------------------------------------- hybrid_recommendation
\* Labels of a pandas index carry their Python type: the rows of user_item_df
\* are labelled with integer user ids, its columns with item-key strings.
IntLabel(u) == <<"int", u>>
StrLabel(k) == <<"str", k>>

RowLabels(df)    == {IntLabel(df.index[i]) : i \in DOMAIN df.index}
ColumnLabels(df) == {StrLabel(df.columns[i]) : i \in DOMAIN df.columns}

\* user_item_df[column]: a Series over the row labels
ColumnSeries(df, key) ==
    [l \in RowLabels(df) |-> IF <<l[2], key>> \in df.cells THEN 1 ELSE 0]

\* user_item_df.loc[user_id]: a Series over the column labels
RowSeries(df, u) ==
    [l \in ColumnLabels(df) |-> IF <<u, l[2]>> \in df.cells THEN 1 ELSE 0]

RECURSIVE SumOver(_, _, _)
SumOver(S, a, b) ==
    IF S = {} THEN 0
    ELSE LET l == CHOOSE x \in S : TRUE
         IN  a[l] * b[l] + SumOver(S \ {l}, a, b)

Ones(S) == [l \in S |-> 1]

NaN == [nan |-> TRUE, v |-> 0]

\* The Pearson coefficient from the moments of two Series over n shared labels:
\* NaN when they share none or one of them is constant there.  The value is
\* the signed square of the coefficient, scaled by SimScale.
Pearson(n, sa, sb, sab, saa, sbb) ==
    IF n = 0 \/ n * saa - sa * sa = 0 \/ n * sbb - sb * sb = 0 THEN NaN
    ELSE [nan |-> FALSE,
          v   |-> (IF n * sab - sa * sb < 0 THEN -1 ELSE 1)
                  * ((SimScale * (n * sab - sa * sb) * (n * sab - sa * sb))
                      \div ((n * saa - sa * sa) * (n * sbb - sb * sb)))]

SeriesCorrOver(common, a, b) ==
    Pearson(Cardinality(common), SumOver(common, a, Ones(common)),
            SumOver(common, b, Ones(common)), SumOver(common, a, b),
            SumOver(common, a, a), SumOver(common, b, b))

\* Series.corr: the two Series are aligned on the labels they share
SeriesCorr(a, b) == SeriesCorrOver(DOMAIN a \cap DOMAIN b, a, b)

\* user_item_df.corrwith(user_ratings).sort_values(ascending=False).dropna():
\* one entry per column of the frame, each column correlated with the user's row
CorrWith(df, u) ==
    LET all  == [i \in DOMAIN df.columns |->
                    <<StrLabel(df.columns[i]),
                      SeriesCorr(ColumnSeries(df, df.columns[i]), RowSeries(df, u))>>]
        kept == SelectSeq(all, LAMBDA e : ~e[2].nan)
    IN  SortDesc([i \in DOMAIN kept |-> <<kept[i][1], kept[i][2].v>>])

NeighbourCount == 10

\* sorted(collab_recs.items(), key=lambda x: x[1], reverse=True): by score,
\* best first; sorted() is stable, so equal scores keep the order of the dict
CollabSorted(items) == SortDesc(items)

\* The collaborative component.  raised: user_item_df.loc[similar_user] is
\* reached for an entry of similar_users, whose labels are column labels and
\* never row labels, so that the lookup raises KeyError.  Otherwise no entry
\* passes similarity > 0.1 and collab_recs stays empty.
Collaborative(df, u, top_n) ==
    IF u \in Range(df.index)
    THEN LET similar == Slice(CorrWith(df, u), NeighbourCount)
         IN  [raised |-> \E i \in DOMAIN similar :
                             similar[i][2] > SimThreshold /\ similar[i][1] \notin RowLabels(df),
              recs   |-> Slice(CollabSorted(<<>>), top_n \div 2)]
    ELSE [raised |-> FALSE, recs |-> <<>>]

\* ContentBased keeping the scores >= 0.1
ContentBasedInclusive(sim, item_ids, book_id, top_n) ==
    LET book_idx == IndexOf(item_ids, BookKey(book_id))
    IN  IF book_id = NoId \/ book_idx = 0 THEN <<>>
        ELSE LET row  == sim[book_idx]
                 idxs == SelectSeq([i \in DOMAIN row |-> i],
                                   LAMBDA i : row[i] >= SimThreshold /\ i # book_idx)
             IN  Slice(SortDesc([k \in DOMAIN idxs |-> <<item_ids[idxs[k]], row[idxs[k]]>>]),
                       top_n \div 2)

\* the content-based component: the row of the seed book, without the seed and
\* without the scores <= 0.1, best first, cut at top_n // 2
ContentBased(sim, item_ids, book_id, top_n) ==
    LET book_idx == IndexOf(item_ids, BookKey(book_id))
    IN  IF book_id = NoId \/ book_idx = 0 THEN <<>>
        ELSE LET row  == sim[book_idx]
                 idxs == SelectSeq([i \in DOMAIN row |-> i],
                                   LAMBDA i : row[i] > SimThreshold /\ i # book_idx)
             IN  Slice(SortDesc([k \in DOMAIN idxs |-> <<item_ids[idxs[k]], row[idxs[k]]>>]),
                       top_n \div 2)

\* Deduplicate without the seen_items test: every candidate is kept
RECURSIVE DeduplicateKeepAll(_, _, _)
DeduplicateKeepAll(recs, final, top_n) ==
    IF recs = <<>> THEN final
    ELSE IF Len(final) + 1 >= top_n THEN Append(final, Head(recs))
    ELSE DeduplicateKeepAll(Tail(recs), Append(final, Head(recs)), top_n)

\* the combine-and-deduplicate loop: an item already seen is skipped, and the
\* loop breaks once top_n entries are kept
RECURSIVE Deduplicate(_, _, _)
Deduplicate(recs, final, top_n) ==
    IF recs = <<>> THEN final
    ELSE IF Head(recs)[1] \in {final[i][1] : i \in DOMAIN final}
         THEN Deduplicate(Tail(recs), final, top_n)
    ELSE IF Len(final) + 1 >= top_n THEN Append(final, Head(recs))
    ELSE Deduplicate(Tail(recs), Append(final, Head(recs)), top_n)

\* the object a key resolves to, as <<model, pk>>, or <<>> when the row is gone
\* (DoesNotExist) or the key has neither prefix
ResolveItem(key) ==
    IF key[1] = "book" THEN (IF key[2] \in books THEN <<BookObj(key[2])>> ELSE <<>>)
    ELSE IF key[1] = "user_book"
         THEN (IF key[2] \in userBooks THEN <<UserBookObj(key[2])>> ELSE <<>>)
    ELSE <<>>

\* ResolveAll giving up at the first key that does not resolve
RECURSIVE ResolveAllUntilMissing(_)
ResolveAllUntilMissing(recs) ==
    IF recs = <<>> \/ ResolveItem(Head(recs)[1]) = <<>> THEN <<>>
    ELSE ResolveItem(Head(recs)[1]) \o ResolveAllUntilMissing(Tail(recs))

\* the loop over final_recs: a key that does not resolve is passed over
RECURSIVE ResolveAll(_)
ResolveAll(recs) ==
    IF recs = <<>> THEN <<>>
    ELSE ResolveItem(Head(recs)[1]) \o ResolveAll(Tail(recs))

\* the body of the try block after the bundle is in hand
Rank(bundle, user_id, book_id, top_n) ==
    LET collab  == Collaborative(bundle.user_item_df.df, user_id, top_n)
        content == ContentBased(bundle.similarity_matrix.m, bundle.item_ids.ids, book_id, top_n)
        final   == Deduplicate(collab.recs \o content, <<>>, top_n)
    IN  [raised  |-> collab.raised,
         collab  |-> collab.recs,
         content |-> content,
         final   |-> final,
         result  |-> ResolveAll(final)]

\* HybridStep with cache.set moved before the similarity computation, so that a
\* failing build leaves its partial dict in the cache
HybridStepEarlySet(user_id, book_id, top_n) ==
    LET cached == CacheGet
        miss   == ~cached.built
        fresh  == BuildBundle(now)
        stored == miss /\ fresh.ok
        bundle == IF miss THEN fresh ELSE cached
        ranked == IF miss /\ ~fresh.ok
                  THEN [raised |-> TRUE, collab |-> <<>>, content |-> <<>>,
                        final |-> <<>>, result |-> <<>>]
                  ELSE Rank(bundle, user_id, book_id, top_n)
    IN  [miss     |-> miss,
         stored   |-> stored,
         bundle   |-> IF miss /\ ~fresh.ok THEN NoBundle ELSE bundle,
         fellBack |-> ranked.raised,
         ranked   |-> ranked,
         cache    |-> IF miss THEN CacheSet(fresh, CacheTimeout) ELSE cache]

\* what a call of hybrid_recommendation does with the cache and computes, up to
\* the choice of the fallback list
HybridStep(user_id, book_id, top_n) ==
    LET cached == CacheGet
        miss   == ~cached.built
        fresh  == BuildBundle(now)
        stored == miss /\ fresh.ok
        bundle == IF miss THEN fresh ELSE cached
        ranked == IF miss /\ ~fresh.ok
                  THEN [raised |-> TRUE, collab |-> <<>>, content |-> <<>>,
                        final |-> <<>>, result |-> <<>>]
                  ELSE Rank(bundle, user_id, book_id, top_n)
    IN  [miss     |-> miss,
         stored   |-> stored,
         bundle   |-> IF miss /\ ~fresh.ok THEN NoBundle ELSE bundle,
         fellBack |-> ranked.raised,
         ranked   |-> ranked,
         cache    |-> IF stored THEN CacheSet(fresh, CacheTimeout)
                      ELSE IF miss THEN NoEntry ELSE cache]

\* the ways the call may return, as <<raised, list>>: the list of the try block,
\* or on the except branch whatever get_popular_books(top_n) does
Returns(step, top_n) ==
    IF ~step.fellBack THEN {<<FALSE, step.ranked.result>>}
    ELSE IF GetPopularBooks(top_n) = {} THEN {<<TRUE, <<>>>>}
    ELSE {<<FALSE, r>> : r \in GetPopularBooks(top_n)}

\* the record of a call that has returned
CallRecord(op, user_id, book_id, top_n, step, raised, result) ==
    [op |-> op, user_id |-> user_id, book_id |-> book_id, top_n |-> top_n,
     entry    |-> EntryState,      \* the entry as the call found it
     hist     |-> cacheHist,       \* the last cache event before the call
     setAt    |-> lastSetAt,       \* the last cache.set before the call
     built    |-> step.miss,       \* the call ran the bundle build
     stored   |-> step.stored,     \* the call wrote the entry
     bundle   |-> step.bundle,     \* the bundle the call computed with
     fellBack |-> step.fellBack,   \* the except branch ran
     collab   |-> step.ranked.collab,
     content  |-> step.ranked.content,
     final    |-> step.ranked.final,
     raised   |-> raised,          \* an exception reached the caller
     result   |-> result]

\* the common part of the three entry points that reach hybrid_recommendation
HybridCall(op, user_id, book_id, top_n) ==
    LET step == HybridStep(user_id, book_id, top_n)
    IN  /\ cache' = step.cache
        /\ cacheHist' = IF step.stored THEN "stored"
                        ELSE IF step.miss THEN "build_failed" ELSE cacheHist
        /\ lastSetAt' = IF step.stored THEN now ELSE lastSetAt
        /\ \E out \in Returns(step, top_n) :
               last' = CallRecord(op, user_id, book_id, top_n, step, out[1], out[2])
        /\ UNCHANGED auxVars
        /\ UNCHANGED <<storeVars, now>>

HybridRecommendation(user_id, book_id, top_n) ==
    HybridCall("hybrid_recommendation", user_id, book_id, top_n)

\* get_personalized_recommendations(user_id, top_n)
GetPersonalizedRecommendations(user_id, top_n) ==
    HybridCall("get_personalized_recommendations", user_id, NoId, top_n)

\* get_recommendations(book_id, top_n): [] when the book does not exist
GetRecommendations(book_id, top_n) ==
    IF book_id \in books
    THEN HybridCall("get_recommendations", NoId, book_id, top_n)
    ELSE /\ last' = [op |-> "get_recommendations_missing", book_id |-> book_id,
                     top_n |-> top_n, raised |-> FALSE, result |-> <<>>]
         /\ UNCHANGED auxVars
         /\ UNCHANGED <<storeVars, cache, now, cacheHist, lastSetAt>>

\* CacheDelete on another key: the bundle entry stays
CacheDeleteOtherKey == cache

\* cache.delete('recommendation_matrices')
CacheDelete == NoEntry

\* TrainRecommendationModel with the delete moved before the builds: the entry
\* is gone also when a build raises
TrainDeleteFirst ==
    LET content_df == BuildContentFeatures
        ok == content_df = <<>> \/ CalculateContentSimilarity(content_df).ok
    IN  /\ cache' = CacheDelete
        /\ cacheHist' = "invalidated"
        /\ last' = [op |-> "train_recommendation_model", result |-> ok,
                    before |-> cache]
        /\ UNCHANGED auxVars
        /\ UNCHANGED <<storeVars, now, lastSetAt>>

\* train_recommendation_model: builds the matrices, then deletes the entry and
\* returns True; a raising build makes it return False before the delete
TrainRecommendationModel ==
    LET content_df == BuildContentFeatures
        ok == content_df = <<>> \/ CalculateContentSimilarity(content_df).ok
    IN  /\ cache' = IF ok THEN CacheDelete ELSE cache
        /\ cacheHist' = IF ok THEN "invalidated" ELSE cacheHist
        /\ last' = [op |-> "train_recommendation_model", result |-> ok,
                    before |-> cache]
        /\ UNCHANGED auxVars
        /\ UNCHANGED <<storeVars, now, lastSetAt>>

\* the arguments the entry points are called with
Calls ==
    {<<2, 1, 4>>, <<1, 2, 1>>, <<1, 1, -1>>, <<2, 2, 0>>}

\* ------------------------------------- hybrid_recommendation, step by step
\* Requests that run hybrid_recommendation at the same time.  Each one goes
\* through cache.get, the build, cache.set and the ranking as separate steps,
\* so that the steps of different requests interleave.
Requests == {1, 2}

RequestAt(pc, c) ==
    [pc |-> pc, user_id |-> c[1], book_id |-> c[2], top_n |-> c[3],
     bundle |-> NoBundle, stored |-> FALSE, raised |-> FALSE, result |-> <<>>]

\* an entry written 30 minutes ago from an older catalog, expired by now
StaleBundle ==
    [built |-> TRUE,
     ok    |-> TRUE,
     user_item_df      |-> [build |-> -CacheTimeout, df |-> EmptyFrame],
     content_df        |-> [build |-> -CacheTimeout,
                            rows  |-> <<FeatureRow(BookKey(2), {"fantasy"}, "book")>>],
     similarity_matrix |-> [build |-> -CacheTimeout, m |-> <<<<SimScale>>>>],
     item_ids          |-> [build |-> -CacheTimeout, ids |-> <<BookKey(2)>>]]

StaleEntry == [present |-> TRUE, value |-> StaleBundle, expires |-> 0]

\* RaceFound without the expiry test: whatever is stored is a hit
RaceFoundStored == IF cache.present THEN cache.value ELSE NoBundle

\* what cache.get hands to the request
RaceFound == CacheGet

\* line 100: cache.get; an expired entry is dropped by the lookup
RaceGet(p) ==
    /\ race[p].pc = "get"
    /\ race' = [race EXCEPT ![p].pc = IF RaceFound.built THEN "rank" ELSE "build",
                            ![p].bundle = RaceFound]
    /\ cache' = IF EntryState = "STALE" THEN NoEntry ELSE cache
    /\ UNCHANGED <<storeVars, now, cacheHist, lastSetAt, last, pay, forum, ai, addr>>

\* lines 104 to 113: the three builders; a raising builder sends the request to
\* the except branch
RaceBuild(p) ==
    /\ race[p].pc = "build"
    /\ race' = [race EXCEPT ![p].pc = IF BuildBundle(now).ok THEN "set" ELSE "except",
                            ![p].bundle = IF BuildBundle(now).ok THEN BuildBundle(now)
                                          ELSE NoBundle]
    /\ UNCHANGED <<storeVars, cache, now, cacheHist, lastSetAt, last, pay, forum, ai, addr>>

\* line 114: cache.set of the dict the request has built
RaceSet(p) ==
    /\ race[p].pc = "set"
    /\ cache' = CacheSet(race[p].bundle, CacheTimeout)
    /\ cacheHist' = "stored"
    /\ lastSetAt' = now
    /\ race' = [race EXCEPT ![p].pc = "rank", ![p].stored = TRUE]
    /\ UNCHANGED <<storeVars, now, last, pay, forum, ai, addr>>

\* lines 121 to 180: the ranking with the bundle in hand
RaceRank(p) ==
    /\ race[p].pc = "rank"
    /\ race' = [race EXCEPT
                  ![p].pc = IF Rank(race[p].bundle, race[p].user_id, race[p].book_id,
                                    race[p].top_n).raised
                            THEN "except" ELSE "done",
                  ![p].result = Rank(race[p].bundle, race[p].user_id, race[p].book_id,
                                     race[p].top_n).result]
    /\ UNCHANGED <<storeVars, cache, now, cacheHist, lastSetAt, last, pay, forum, ai, addr>>

\* lines 182 to 185: the except branch
RaceExcept(p) ==
    /\ race[p].pc = "except"
    /\ \/ /\ GetPopularBooks(race[p].top_n) = {}
          /\ race' = [race EXCEPT ![p].pc = "done", ![p].raised = TRUE, ![p].result = <<>>]
       \/ \E r \in GetPopularBooks(race[p].top_n) :
              race' = [race EXCEPT ![p].pc = "done", ![p].result = r]
    /\ UNCHANGED <<storeVars, cache, now, cacheHist, lastSetAt, last, pay, forum, ai, addr>>

\* time passes between the steps
RaceTick ==
    /\ now + TickSeconds <= MaxTime
    /\ now' = now + TickSeconds
    /\ UNCHANGED <<storeVars, cache, cacheHist, lastSetAt, last, auxVars>>

\* any catalog, with or without a purchase, a missing or an expired entry, and
\* two requests about to call cache.get
RaceInit ==
    /\ books \in SUBSET BookIds
    /\ bookTerms \in [books -> TermChoices]
    /\ nextBookId = 3
    /\ userBooks \in SUBSET UserBookIds /\ available = userBooks /\ nextUserBookId = 2
    /\ orders \in {<<>>} \cup {<<OrderRow(1, b, NoId, "confirmed")>> : b \in books}
    /\ reviews = <<>>
    /\ cache \in {NoEntry, StaleEntry}
    /\ now = 0
    /\ cacheHist = IF cache.present THEN "stored" ELSE "never"
    /\ lastSetAt = IF cache.present THEN -CacheTimeout ELSE -1
    /\ last = NoCall
    /\ race \in [Requests -> {RequestAt("get", c) : c \in Calls}]
    /\ pay = NoPay /\ forum = NoForum /\ ai = NoAi /\ addr = NoAddr

RaceNext ==
    \/ \E p \in Requests : RaceGet(p)
    \/ \E p \in Requests : RaceBuild(p)
    \/ \E p \in Requests : RaceSet(p)
    \/ \E p \in Requests : RaceRank(p)
    \/ \E p \in Requests : RaceExcept(p)
    \/ RaceTick

SpecRace == RaceInit /\ [][RaceNext]_vars

\* ----------------------------------- api_process_payment, api_payment_webhook
MaxPayOrders == 2       \* Order rows of the payment endpoints
MaxEvents    == 3       \* PaymentEvent rows

PayUsers     == {1}
PaymentIds   == {"pay_1", "pay_2"}
RzpOrderIds  == {"order_1"}
Quantities   == {1, 2}  \* quantity of one order
InitialStock == [b \in BookIds |-> b]   \* Book.stock: one copy of book 1, two of book 2
NoRef        == "none"  \* a razorpay id that is NULL

PayOrder(u, b, q, st, oid, pid) ==
    [user |-> u, book |-> b, quantity |-> q, status |-> st,
     razorpay_order_id |-> oid, razorpay_payment_id |-> pid]

\* add_to_cart: one more of a book already in the user's cart, or a new cart line
PayAddToCart(u, b) ==
    LET mine == {i \in DOMAIN pay.orders :
                    /\ pay.orders[i].user = u /\ pay.orders[i].book = b
                    /\ pay.orders[i].status = "cart"}
    IN  /\ IF mine # {}
           THEN LET i == CHOOSE j \in mine : \A k \in mine : j <= k
                IN  /\ pay.orders[i].quantity + 1 \in Quantities
                    /\ pay' = [pay EXCEPT !.orders[i].quantity = @ + 1]
           ELSE /\ Len(pay.orders) < MaxPayOrders
                /\ pay' = [pay EXCEPT !.orders =
                               Append(@, PayOrder(u, b, 1, "cart", NoRef, NoRef))]
        /\ last' = NoCall
        /\ UNCHANGED <<storeVars, cache, now, cacheHist, lastSetAt, race, forum, ai, addr>>

\* an order that waits for its payment: a pending Order row that carries the
\* razorpay order id of its checkout
PayCreateOrder(u, b, q, oid) ==
    /\ Len(pay.orders) < MaxPayOrders
    /\ pay' = [pay EXCEPT !.orders = Append(@, PayOrder(u, b, q, "pending", oid, NoRef))]
    /\ last' = NoCall
    /\ UNCHANGED <<storeVars, cache, now, cacheHist, lastSetAt, race, forum, ai, addr>>

\* the stock after one order is paid: decremented when it is at least the
\* quantity of the order, left alone otherwise
StockAfter(stock, o) ==
    IF o.book # NoId /\ stock[o.book] >= o.quantity
    THEN [stock EXCEPT ![o.book] = @ - o.quantity]
    ELSE stock

\* the loop of api_process_payment over the orders it found, in primary-key
\* order: acc holds the orders, the stock and the processed ids so far
RECURSIVE ProcessOrders(_, _, _, _)
ProcessOrders(ids, acc, pid, oid) ==
    IF ids = <<>> THEN acc
    ELSE LET i == Head(ids)
             o == acc.orders[i]
         IN  IF o.razorpay_payment_id = pid
             THEN ProcessOrders(Tail(ids), acc, pid, oid)
             ELSE ProcessOrders(Tail(ids),
                    [orders    |-> [acc.orders EXCEPT ![i].status = "confirmed",
                                                      ![i].razorpay_payment_id = pid,
                                                      ![i].razorpay_order_id = oid],
                     stock     |-> StockAfter(acc.stock, o),
                     processed |-> Append(acc.processed, i)],
                    pid, oid)

\* EventsOf that never finds the event of a payment id
EventsOfNone(pid) == {}

\* PaymentEvent.objects.filter(payload__contains={'payment_id': pid})
EventsOf(pid) == {i \in DOMAIN pay.events : pay.events[i].payment_id = pid}

\* the orders api_process_payment works on: those of the razorpay order id, or
\* the cart of the authenticated user when there is none
OrdersToProcess(u, oid) ==
    LET byRef == {i \in DOMAIN pay.orders : pay.orders[i].razorpay_order_id = oid}
    IN  IF byRef = {} /\ u # NoId
        THEN {i \in DOMAIN pay.orders :
                 pay.orders[i].user = u /\ pay.orders[i].status = "cart"}
        ELSE byRef

\* the state api_process_payment leaves
ProcessPayment(u, pid, oid) ==
    LET done == ProcessOrders(Ascending(OrdersToProcess(u, oid)),
                              [orders |-> pay.orders, stock |-> pay.stock,
                               processed |-> <<>>], pid, oid)
    IN  [orders |-> done.orders,
         stock  |-> done.stock,
         events |-> Append(pay.events,
                           [event |-> "payment_processed", payment_id |-> pid,
                            order_ids |-> done.processed])]

\* the record of a call of one of the two endpoints
PayRecord(op, u, pid, oid, verified, response) ==
    [op |-> op, user |-> u, payment_id |-> pid, order_id |-> oid,
     verified |-> verified, response |-> response,
     before |-> pay,
     repeat |-> /\ last.op = op
                /\ last.user = u /\ last.payment_id = pid /\ last.order_id = oid
                /\ last.verified = verified]

\* api_process_payment: 400 when a field is missing or the signature is not
\* the one of the payment (verified is FALSE); success without any change when
\* a PaymentEvent of the payment id exists; else the orders are confirmed, the
\* stock is taken and the event is recorded
ApiProcessPayment(u, pid, oid, verified) ==
    /\ Len(pay.events) < MaxEvents
    /\ pay' = IF verified /\ EventsOf(pid) = {} THEN ProcessPayment(u, pid, oid) ELSE pay
    /\ last' = PayRecord("api_process_payment", u, pid, oid, verified,
                         IF verified THEN "success" ELSE "error")
    /\ UNCHANGED <<storeVars, cache, now, cacheHist, lastSetAt, race, forum, ai, addr>>

\* the order Order.objects.get(razorpay_order_id=oid) returns
WebhookOrders(oid) == {i \in DOMAIN pay.orders : pay.orders[i].razorpay_order_id = oid}

\* the state a payment.captured webhook leaves when get() found the order i
CapturePayment(i, pid) ==
    IF pay.orders[i].razorpay_payment_id = pid THEN pay
    ELSE [orders |-> [pay.orders EXCEPT ![i].status = "confirmed",
                                        ![i].razorpay_payment_id = pid],
          stock  |-> StockAfter(pay.stock, pay.orders[i]),
          events |-> Append(pay.events,
                            [event |-> "webhook_payment_captured", payment_id |-> pid,
                             order_ids |-> <<i>>])]

\* api_payment_webhook for a payment.captured event: no order of that id is
\* passed over (DoesNotExist is caught), several orders of that id make get()
\* raise MultipleObjectsReturned, which nothing catches
ApiPaymentWebhook(pid, oid) ==
    /\ Len(pay.events) < MaxEvents
    /\ pay' = IF Cardinality(WebhookOrders(oid)) = 1
              THEN CapturePayment(CHOOSE i \in WebhookOrders(oid) : TRUE, pid)
              ELSE pay
    /\ last' = PayRecord("api_payment_webhook", NoId, pid, oid, TRUE,
                         IF Cardinality(WebhookOrders(oid)) > 1 THEN "raised" ELSE "ok")
    /\ UNCHANGED <<storeVars, cache, now, cacheHist, lastSetAt, race, forum, ai, addr>>

PayInit ==
    /\ books = BookIds /\ bookTerms = [b \in BookIds |-> {}] /\ nextBookId = 3
    /\ userBooks = {} /\ available = {} /\ nextUserBookId = 1
    /\ orders = <<>> /\ reviews = <<>>
    /\ cache = NoEntry /\ now = 0 /\ cacheHist = "never" /\ lastSetAt = -1
    /\ last = NoCall
    /\ pay = [orders |-> <<>>, stock |-> InitialStock, events |-> <<>>]
    /\ race = NoRace /\ forum = NoForum /\ ai = NoAi /\ addr = NoAddr

PayNext ==
    \/ \E u \in PayUsers, b \in BookIds : PayAddToCart(u, b)
    \/ \E u \in PayUsers, b \in BookIds, q \in Quantities, oid \in RzpOrderIds :
           PayCreateOrder(u, b, q, oid)
    \/ \E u \in PayUsers \cup {NoId}, pid \in PaymentIds, oid \in RzpOrderIds,
           verified \in BOOLEAN : ApiProcessPayment(u, pid, oid, verified)
    \/ \E pid \in PaymentIds, oid \in RzpOrderIds : ApiPaymentWebhook(pid, oid)

SpecPay == PayInit /\ [][PayNext]_vars

\* ------------------------------------ build_user_item_matrix on any orders
MaxMatrixOrders == 2

\* statuses an Order row may have: counted ones and one that is not
OrderStatuses == CountedStatuses \cup {"pending"}

\* the Order rows the model allows: book and user_book are both nullable and
\* nothing ties one to the other
AnyOrderRows ==
    {OrderRow(u, b, k, st) : u \in UserIds, b \in BookIds \cup {NoId},
                             k \in UserBookIds \cup {NoId}, st \in OrderStatuses}

\* build_user_item_matrix() is called on the orders of the store
BuildMatrixCall ==
    /\ last' = [op |-> "build_user_item_matrix", df |-> BuildUserItemMatrix]
    /\ UNCHANGED <<storeVars, cache, now, cacheHist, lastSetAt, auxVars>>

MatrixInit ==
    /\ books = BookIds /\ bookTerms = [b \in BookIds |-> {}] /\ nextBookId = 3
    /\ userBooks = UserBookIds /\ available = UserBookIds /\ nextUserBookId = 2
    /\ orders \in UNION {[1..n -> AnyOrderRows] : n \in 0..MaxMatrixOrders}
    /\ reviews = <<>>
    /\ cache = NoEntry /\ now = 0 /\ cacheHist = "never" /\ lastSetAt = -1
    /\ last = NoCall
    /\ AuxIdle

MatrixNext == BuildMatrixCall

SpecMatrix == MatrixInit /\ [][MatrixNext]_vars

\* ------------------------------------ ai_recommendation.get_recommendations
AiTopNs == {1, 4}

\* train_recommendation_model of ai_recommendation: nothing is written when
\* there is no book, else the model file holds the ids and the features of
\* the books of that moment
AiTrained ==
    IF books = {} THEN [present |-> FALSE]
    ELSE [present |-> TRUE, book_ids |-> Ascending(books), features |-> bookTerms]

\* Book.objects.all()[:top_n]
AiDefault(top_n) == Slice([i \in DOMAIN Ascending(books) |-> BookObj(Ascending(books)[i])], top_n)

\* the other books of the model file, most similar first, cut at top_n; the
\* similarity of two feature strings is the cosine of their term sets
AiSimilar(model, book_id, top_n) ==
    LET others == SelectSeq(model.book_ids, LAMBDA b : b # book_id)
    IN  Slice(SortDesc([i \in DOMAIN others |->
                           <<others[i],
                             Cosine(model.features[book_id], model.features[others[i]])>>]),
              top_n)

\* Book.objects.filter(id__in=recommended_ids): the rows that still exist
AiResolve(ranked) ==
    LET ids == {ranked[i][1] : i \in DOMAIN ranked} \cap books
    IN  [i \in DOMAIN Ascending(ids) |-> BookObj(Ascending(ids)[i])]

\* the list a call computes on a miss, given the model file it reads
AiCompute(model, book_id, top_n) ==
    IF ~model.present THEN AiDefault(top_n)
    ELSE IF book_id \notin Range(model.book_ids) THEN AiDefault(top_n)
    ELSE AiResolve(AiSimilar(model, book_id, top_n))

\* cache_key = f'book_recommendations_{book_id}'
AiCacheKey(book_id, top_n) == <<book_id>>

\* cache.get(cache_key), and the `if cached_recommendations:` test: an entry
\* that is missing, expired or holds an empty list is no hit
AiHit(key) ==
    /\ key \in DOMAIN ai.cache
    /\ now < ai.cache[key].expires
    /\ ai.cache[key].value # <<>>

\* get_recommendations(book_id, top_n) of ai_recommendation
AiGetRecommendations(book_id, top_n) ==
    LET key    == AiCacheKey(book_id, top_n)
        model  == IF ai.model.present THEN ai.model ELSE AiTrained
        result == AiCompute(model, book_id, top_n)
        entry  == [value |-> result, expires |-> now + CacheTimeout,
                   book_id |-> book_id, top_n |-> top_n]
    IN  IF AiHit(key)
        THEN /\ last' = [op |-> "ai_get_recommendations", book_id |-> book_id,
                         top_n |-> top_n, hit |-> TRUE,
                         computedFor |-> <<ai.cache[key].book_id, ai.cache[key].top_n>>,
                         result |-> ai.cache[key].value]
             /\ UNCHANGED ai
        ELSE /\ last' = [op |-> "ai_get_recommendations", book_id |-> book_id,
                         top_n |-> top_n, hit |-> FALSE,
                         computedFor |-> <<book_id, top_n>>,
                         result |-> result]
             /\ ai' = [model |-> model,
                       cache |-> [k \in DOMAIN ai.cache \cup {key} |->
                                     IF k = key THEN entry ELSE ai.cache[k]]]

AiCall(book_id, top_n) ==
    /\ AiGetRecommendations(book_id, top_n)
    /\ UNCHANGED <<storeVars, cache, now, cacheHist, lastSetAt, race, pay, forum, addr>>

AiInit ==
    /\ books = {} /\ bookTerms = <<>> /\ nextBookId = 1
    /\ userBooks = {} /\ available = {} /\ nextUserBookId = 1
    /\ orders = <<>> /\ reviews = <<>>
    /\ cache = NoEntry /\ now = 0 /\ cacheHist = "never" /\ lastSetAt = -1
    /\ last = NoCall
    /\ AuxIdle

AiNext ==
    \/ \E t \in TermChoices : AddBook(t)
    \/ \E b \in BookIds : DeleteBook(b)
    \/ Tick
    \/ \E b \in BookIds, n \in AiTopNs : AiCall(b, n)

SpecAi == AiInit /\ [][AiNext]_vars

\* --------------------------------------------------- like_post, like_comment
ForumUsers == {1, 2, 3}
PostIds    == {1, 2}
CommentIds == {1, 2}

\* the like_count a comment is saved with after an unlike, without the decrement
CommentCountKept(c) == forum.commentCount[c]

\* the like_count a comment is saved with after an unlike: decremented when it
\* is positive
CommentCountAfterUnlike(c) ==
    IF forum.commentCount[c] > 0 THEN forum.commentCount[c] - 1 ELSE forum.commentCount[c]

\* like_post: get_or_create of the like of (user, post); a like that existed is
\* deleted and like_count goes down by one, a new one makes it go up by one
LikePost(u, p) ==
    LET created == <<u, p>> \notin forum.postLikes
        count   == IF created THEN forum.postCount[p] + 1 ELSE forum.postCount[p] - 1
    IN  /\ forum' = [forum EXCEPT
                       !.postLikes = IF created THEN @ \cup {<<u, p>>} ELSE @ \ {<<u, p>>},
                       !.postCount[p] = count]
        /\ last' = [op |-> "like_post", user |-> u, id |-> p, liked |-> created,
                    like_count |-> count]
        /\ UNCHANGED <<storeVars, cache, now, cacheHist, lastSetAt, race, pay, ai, addr>>

\* like_comment: the same toggle on the like of (user, comment)
LikeComment(u, c) ==
    LET created == <<u, c>> \notin forum.commentLikes
        count   == IF created THEN forum.commentCount[c] + 1 ELSE CommentCountAfterUnlike(c)
    IN  /\ forum' = [forum EXCEPT
                       !.commentLikes = IF created THEN @ \cup {<<u, c>>} ELSE @ \ {<<u, c>>},
                       !.commentCount[c] = count]
        /\ last' = [op |-> "like_comment", user |-> u, id |-> c, liked |-> created,
                    like_count |-> count]
        /\ UNCHANGED <<storeVars, cache, now, cacheHist, lastSetAt, race, pay, ai, addr>>

\* posts and comments as they are created: no like, like_count = 0
ForumInit ==
    /\ books = {} /\ bookTerms = <<>> /\ nextBookId = 1
    /\ userBooks = {} /\ available = {} /\ nextUserBookId = 1
    /\ orders = <<>> /\ reviews = <<>>
    /\ cache = NoEntry /\ now = 0 /\ cacheHist = "never" /\ lastSetAt = -1
    /\ last = NoCall
    /\ forum = [postLikes |-> {}, postCount |-> [p \in PostIds |-> 0],
                commentLikes |-> {}, commentCount |-> [c \in CommentIds |-> 0]]
    /\ race = NoRace /\ pay = NoPay /\ ai = NoAi /\ addr = NoAddr

ForumNext ==
    \/ \E u \in ForumUsers, p \in PostIds : LikePost(u, p)
    \/ \E u \in ForumUsers, c \in CommentIds : LikeComment(u, c)

SpecForum == ForumInit /\ [][ForumNext]_vars

\* ------------------------------------------------------- the specification
Init ==
    /\ books = {} /\ bookTerms = <<>> /\ nextBookId = 1
    /\ userBooks = {} /\ available = {} /\ nextUserBookId = 1
    /\ orders = <<>> /\ reviews = <<>>
    /\ cache = NoEntry
    /\ now = 0
    /\ cacheHist = "never"
    /\ lastSetAt = -1
    /\ last = NoCall
    /\ AuxIdle

Next ==
    \/ \E t \in TermChoices : AddBook(t)
    \/ \E b \in BookIds : DeleteBook(b)
    \/ SellBook
    \/ \E k \in UserBookIds : DeleteListing(k)
    \/ \E u \in Buyers, b \in BookIds : BuyNow(u, b)
    \/ \E u \in Buyers, k \in UserBookIds : BuyUserBook(u, k)
    \/ Tick
    \/ \E c \in Calls : HybridRecommendation(c[1], c[2], c[3])
    \/ \E c \in Calls : c[1] # NoId /\ GetPersonalizedRecommendations(c[1], c[3])
    \/ \E c \in Calls : c[2] # NoId /\ GetRecommendations(c[2], c[3])
    \/ TrainRecommendationModel

Spec == Init /\ [][Next]_vars

\* ------------------------------------------- the merge as a pure function
MaxCandidates == 2

ItemKeys == {BookKey(b) : b \in BookIds} \cup {UserBookKey(k) : k \in UserBookIds}

\* candidate lists of one half, as (item key, score) pairs, best first
CandidateLists ==
    UNION {[1..n -> {<<key, SimScale>> : key \in ItemKeys}] : n \in 0..MaxCandidates}

\* lines 139 to 180 of hybrid_recommendation on given candidate lists: each half
\* is cut at top_n // 2, the halves are concatenated, deduplicated and resolved
Merge(collab, content, top_n) ==
    /\ last' = [op      |-> "merge",
                top_n   |-> top_n,
                collab  |-> Slice(collab, top_n \div 2),
                content |-> Slice(content, top_n \div 2),
                final   |-> Deduplicate(Slice(collab, top_n \div 2)
                                          \o Slice(content, top_n \div 2),
                                        <<>>, top_n),
                result  |-> ResolveAll(Deduplicate(Slice(collab, top_n \div 2)
                                                    \o Slice(content, top_n \div 2),
                                                  <<>>, top_n))]
    /\ UNCHANGED auxVars
    /\ UNCHANGED <<storeVars, cache, now, cacheHist, lastSetAt>>

\* any store the item keys may be resolved against
MergeInit ==
    /\ books \in SUBSET BookIds /\ bookTerms = [b \in books |-> {}] /\ nextBookId = 1
    /\ userBooks \in SUBSET UserBookIds /\ available = userBooks /\ nextUserBookId = 1
    /\ orders = <<>> /\ reviews = <<>>
    /\ cache = NoEntry
    /\ now = 0
    /\ cacheHist = "never"
    /\ lastSetAt = -1
    /\ last = NoCall
    /\ AuxIdle

MergeNext ==
    \E collab \in CandidateLists, content \in CandidateLists, top_n \in TopNs :
        Merge(collab, content, top_n)

SpecMerge == MergeInit /\ [][MergeNext]_vars

\* --------------------------------- the collaborative component on any orders
MaxCollabOrders == 4

CollabUsers  == {1, 2, 3}
CollabTopN   == 6          \* top_n // 2 is the number of items
ScoreChoices == {SimScale \div 4, SimScale \div 2, SimScale}

\* confirmed orders of one book or one listing each
PurchaseRows ==
    {OrderRow(u, b, NoId, "confirmed") : u \in CollabUsers, b \in BookIds}
        \cup {OrderRow(u, NoId, k, "confirmed") : u \in CollabUsers, k \in UserBookIds}

\* lines 123 to 139 of hybrid_recommendation for a user, on the matrix of the
\* orders of the store
CollabCall(u, top_n) ==
    /\ last' = [op |-> "collaborative", user_id |-> u, top_n |-> top_n,
                df |-> BuildUserItemMatrix,
                similar_users |-> CorrWith(BuildUserItemMatrix, u),
                raised |-> Collaborative(BuildUserItemMatrix, u, top_n).raised,
                recs   |-> Collaborative(BuildUserItemMatrix, u, top_n).recs]
    /\ UNCHANGED <<storeVars, cache, now, cacheHist, lastSetAt, auxVars>>

\* collab_recs.items(): item keys with their scores, in the order the keys were
\* first written
CollabDicts ==
    {d \in UNION {[1..n -> ItemKeys \X ScoreChoices] : n \in 0..Cardinality(ItemKeys)} :
        \A i, j \in DOMAIN d : d[i][1] = d[j][1] => i = j}

\* line 138 on a given dict
SortCall(items) ==
    /\ last' = [op |-> "collab_sorted", items |-> items, sorted |-> CollabSorted(items)]
    /\ UNCHANGED <<storeVars, cache, now, cacheHist, lastSetAt, auxVars>>

CollabInit ==
    /\ books = BookIds /\ bookTerms = [b \in BookIds |-> {}] /\ nextBookId = 3
    /\ userBooks = UserBookIds /\ available = UserBookIds /\ nextUserBookId = 2
    /\ orders \in UNION {[1..n -> PurchaseRows] : n \in 0..MaxCollabOrders}
    /\ reviews = <<>>
    /\ cache = NoEntry /\ now = 0 /\ cacheHist = "never" /\ lastSetAt = -1
    /\ last = NoCall
    /\ AuxIdle

CollabNext == \E u \in CollabUsers : CollabCall(u, CollabTopN)

SpecCollab == CollabInit /\ [][CollabNext]_vars

\* the sort of line 138 as a pure function of the dict
SortInit ==
    /\ books = BookIds /\ bookTerms = [b \in BookIds |-> {}] /\ nextBookId = 3
    /\ userBooks = UserBookIds /\ available = UserBookIds /\ nextUserBookId = 2
    /\ orders = <<>> /\ reviews = <<>>
    /\ cache = NoEntry /\ now = 0 /\ cacheHist = "never" /\ lastSetAt = -1
    /\ last = NoCall
    /\ AuxIdle

SortNext == \E d \in CollabDicts : SortCall(d)

SpecSort == SortInit /\ [][SortNext]_vars

\* ------------------------------------- the content half on any similarities
ContentTopNs == {-1, 1, 2, 4}

\* similarities of two different items: exactly 0.1, and two values above it
SimChoices == {SimThreshold, SimScale \div 2, SimScale}

\* item_ids of a bundle: the keys of its content rows, each once
ItemIdLists ==
    {ids \in UNION {[1..n -> ItemKeys] : n \in 2..Cardinality(ItemKeys)} :
        \A i, j \in DOMAIN ids : ids[i] = ids[j] => i = j}

\* cosine_similarity of n rows: symmetric, 1.0 on the diagonal
SimMatrices(n) ==
    {[i \in 1..n |-> [j \in 1..n |-> IF i = j THEN SimScale ELSE p[{i, j}]]] :
        p \in [{{i, j} : i, j \in 1..n} \ {{i} : i \in 1..n} -> SimChoices]}

\* lines 141 to 152 of hybrid_recommendation on the matrix and the item list of
\* a given bundle
ContentCall(sim, item_ids, book_id, top_n) ==
    /\ last' = [op |-> "content_based", book_id |-> book_id, top_n |-> top_n,
                similarity_matrix |-> sim, item_ids |-> item_ids,
                recs |-> ContentBased(sim, item_ids, book_id, top_n)]
    /\ UNCHANGED <<storeVars, cache, now, cacheHist, lastSetAt, auxVars>>

ContentInit == SortInit

ContentNext ==
    \E item_ids \in ItemIdLists, book_id \in BookIds \cup {NoId}, top_n \in ContentTopNs :
        \E sim \in SimMatrices(Len(item_ids)) : ContentCall(sim, item_ids, book_id, top_n)

SpecContent == ContentInit /\ [][ContentNext]_vars

\* ---------------------------------- get_popular_books on any orders and reviews
MaxPopularOrders  == 2
MaxPopularReviews == 3

PopularTopNs == {1, 2}

ReviewRows == {[book |-> b, rating |-> r] : b \in BookIds, r \in Ratings}

\* get_popular_books(top_n) on the orders and reviews of the store
PopularCall(top_n) ==
    /\ \E r \in GetPopularBooks(top_n) :
           last' = [op |-> "get_popular_books", top_n |-> top_n, result |-> r]
    /\ UNCHANGED <<storeVars, cache, now, cacheHist, lastSetAt, auxVars>>

\* both books in the catalog, with any orders and reviews
PopularInit ==
    /\ books = BookIds /\ bookTerms = [b \in BookIds |-> {}] /\ nextBookId = 3
    /\ userBooks = {} /\ available = {} /\ nextUserBookId = 1
    /\ orders \in UNION {[1..n -> {OrderRow(u, b, NoId, "confirmed") : u \in Buyers, b \in BookIds}] :
                            n \in 0..MaxPopularOrders}
    /\ reviews \in UNION {[1..n -> ReviewRows] : n \in 0..MaxPopularReviews}
    /\ cache = NoEntry /\ now = 0 /\ cacheHist = "never" /\ lastSetAt = -1
    /\ last = NoCall
    /\ AuxIdle

PopularNext == \E top_n \in PopularTopNs : PopularCall(top_n)

SpecPopular == PopularInit /\ [][PopularNext]_vars

\* ------------------------- the collaborative component for two like purchasers
Twins == {1, 2}

\* the catalog books, in primary-key order
TwinBooks == 1..6
TwinItems == [b \in TwinBooks |-> BookKey(b)]

\* all of the items but one
TwinSize == Len(TwinItems) - 1

\* the confirmed orders of a user for a set of items, one order per item
RECURSIVE OrdersOf(_, _, _)
OrdersOf(u, items, keys) ==
    IF keys = <<>> THEN <<>>
    ELSE (IF Head(keys) \in items
          THEN <<OrderRow(u, IF Head(keys)[1] = "book" THEN Head(keys)[2] ELSE NoId,
                          IF Head(keys)[1] = "user_book" THEN Head(keys)[2] ELSE NoId,
                          "confirmed")>>
          ELSE <<>>) \o OrdersOf(u, items, Tail(keys))

\* users 1 and 2 have bought the same TwinSize items, user 3 any items
TwinInit ==
    /\ books = TwinBooks /\ bookTerms = [b \in TwinBooks |-> {}] /\ nextBookId = 7
    /\ userBooks = {} /\ available = {} /\ nextUserBookId = 1
    /\ \E S \in SUBSET Range(TwinItems), T \in SUBSET Range(TwinItems) :
          /\ Cardinality(S) = TwinSize
          /\ orders = OrdersOf(1, S, TwinItems) \o OrdersOf(2, S, TwinItems)
                          \o OrdersOf(3, T, TwinItems)
    /\ reviews = <<>>
    /\ cache = NoEntry /\ now = 0 /\ cacheHist = "never" /\ lastSetAt = -1
    /\ last = NoCall
    /\ AuxIdle

TwinNext == \E u \in CollabUsers : CollabCall(u, CollabTopN)

SpecTwins == TwinInit /\ [][TwinNext]_vars

\* ------------------------- hybrid_recommendation racing with an invalidation
\* a request that has not arrived yet; catalog is the set of books at the time
\* it arrives (history)
WaitingRequest(c) ==
    [pc |-> "wait", user_id |-> c[1], book_id |-> c[2], top_n |-> c[3],
     bundle |-> NoBundle, stored |-> FALSE, raised |-> FALSE, result |-> <<>>,
     catalog |-> {}]

\* the request arrives once a train_recommendation_model call has returned True
\* and the catalog has not changed since
RaceArrive(p) ==
    /\ race[p].pc = "wait"
    /\ last.op = "train_recommendation_model" /\ last.result
    /\ race' = [race EXCEPT ![p].pc = "get", ![p].catalog = books]
    /\ UNCHANGED <<storeVars, cache, now, cacheHist, lastSetAt, last, pay, forum, ai, addr>>

\* an empty store and cache, request 1 about to call cache.get, request 2 still
\* to come
InvalidateInit ==
    /\ books = {} /\ bookTerms = <<>> /\ nextBookId = 1
    /\ userBooks = {} /\ available = {} /\ nextUserBookId = 1
    /\ orders = <<>> /\ reviews = <<>>
    /\ cache = NoEntry /\ now = 0 /\ cacheHist = "never" /\ lastSetAt = -1
    /\ last = NoCall
    /\ \E c \in Calls, d \in Calls :
           race = [p \in Requests |-> IF p = 1 THEN RequestAt("get", c) ELSE WaitingRequest(d)]
    /\ pay = NoPay /\ forum = NoForum /\ ai = NoAi /\ addr = NoAddr

\* the catalog grows and is retrained while the requests run
InvalidateNext ==
    \/ \E terms \in TermChoices : AddBook(terms)
    \/ TrainRecommendationModel
    \/ \E p \in Requests : RaceArrive(p)
    \/ \E p \in Requests : RaceGet(p)
    \/ \E p \in Requests : RaceBuild(p)
    \/ \E p \in Requests : RaceSet(p)
    \/ \E p \in Requests : RaceRank(p)
    \/ \E p \in Requests : RaceExcept(p)
    \/ RaceTick

SpecInvalidate == InvalidateInit /\ [][InvalidateNext]_vars

\* --------------------------------------- api_payment_webhook, step by step
\* Deliveries of one payment.captured webhook handled at the same time.  The
\* view runs outside any transaction, so each query is a step of its own:
\* the get() of the order, order.save(), the fetch of order.book,
\* order.book.save() and the creation of the PaymentEvent.
Deliveries == {1, 2}

DeliveryAt(pc, pid, oid) ==
    [pc |-> pc, payment_id |-> pid, order_id |-> oid,
     order |-> 0,          \* primary key of the Order instance
     row   |-> <<>>,       \* the Order instance: the row as get() read it
     stock |-> 0,          \* stock of the Book instance order.book
     raised |-> FALSE]

\* Order.objects.get(razorpay_order_id=order_id) and the test on the payment id
HookGet(d) ==
    LET found == WebhookOrders(race[d].order_id)
        i     == CHOOSE j \in found : TRUE
    IN  /\ race[d].pc = "get"
        /\ race' = IF Cardinality(found) # 1
                   THEN [race EXCEPT ![d].pc = "done",
                                     ![d].raised = Cardinality(found) > 1]
                   ELSE [race EXCEPT
                           ![d].pc = IF pay.orders[i].razorpay_payment_id = race[d].payment_id
                                     THEN "done" ELSE "save",
                           ![d].order = i,
                           ![d].row = pay.orders[i]]
        /\ UNCHANGED <<storeVars, cache, now, cacheHist, lastSetAt, last, pay, forum, ai, addr>>

\* order.status = 'confirmed'; order.razorpay_payment_id = payment_id;
\* order.save(): every column is written from the instance
HookSave(d) ==
    /\ race[d].pc = "save"
    /\ pay' = [pay EXCEPT !.orders[race[d].order] =
                  [race[d].row EXCEPT !.status = "confirmed",
                                      !.razorpay_payment_id = race[d].payment_id]]
    /\ race' = [race EXCEPT ![d].pc = "book"]
    /\ UNCHANGED <<storeVars, cache, now, cacheHist, lastSetAt, last, forum, ai, addr>>

\* order.book is fetched on first access; the stock test is made on the instance
HookBook(d) ==
    /\ race[d].pc = "book"
    /\ race' = [race EXCEPT
                  ![d].pc = IF race[d].row.book # NoId
                               /\ pay.stock[race[d].row.book] >= race[d].row.quantity
                            THEN "stock" ELSE "event",
                  ![d].stock = IF race[d].row.book # NoId THEN pay.stock[race[d].row.book]
                               ELSE 0]
    /\ UNCHANGED <<storeVars, cache, now, cacheHist, lastSetAt, last, pay, forum, ai, addr>>

\* order.book.stock -= order.quantity; order.book.save()
HookStock(d) ==
    /\ race[d].pc = "stock"
    /\ pay' = [pay EXCEPT !.stock[race[d].row.book] = race[d].stock - race[d].row.quantity]
    /\ race' = [race EXCEPT ![d].pc = "event"]
    /\ UNCHANGED <<storeVars, cache, now, cacheHist, lastSetAt, last, forum, ai, addr>>

\* PaymentEvent.objects.create(event='webhook_payment_captured', ...)
HookEvent(d) ==
    /\ race[d].pc = "event"
    /\ pay' = [pay EXCEPT !.events =
                  Append(@, [event |-> "webhook_payment_captured",
                             payment_id |-> race[d].payment_id,
                             order_ids |-> <<race[d].order>>])]
    /\ race' = [race EXCEPT ![d].pc = "done"]
    /\ UNCHANGED <<storeVars, cache, now, cacheHist, lastSetAt, last, forum, ai, addr>>

\* one pending order of a razorpay order id, and two deliveries of the webhook
\* of its payment about to be handled
HookInit ==
    /\ books = BookIds /\ bookTerms = [b \in BookIds |-> {}] /\ nextBookId = 3
    /\ userBooks = {} /\ available = {} /\ nextUserBookId = 1
    /\ orders = <<>> /\ reviews = <<>>
    /\ cache = NoEntry /\ now = 0 /\ cacheHist = "never" /\ lastSetAt = -1
    /\ last = NoCall
    /\ \E u \in PayUsers, b \in BookIds, q \in Quantities, oid \in RzpOrderIds :
           pay = [orders |-> <<PayOrder(u, b, q, "pending", oid, NoRef)>>,
                  stock |-> InitialStock, events |-> <<>>]
    /\ \E pid \in PaymentIds, oid \in RzpOrderIds :
           race = [d \in Deliveries |-> DeliveryAt("get", pid, oid)]
    /\ forum = NoForum /\ ai = NoAi /\ addr = NoAddr

HookNext ==
    \/ \E d \in Deliveries : HookGet(d)
    \/ \E d \in Deliveries : HookSave(d)
    \/ \E d \in Deliveries : HookBook(d)
    \/ \E d \in Deliveries : HookStock(d)
    \/ \E d \in Deliveries : HookEvent(d)

SpecHook == HookInit /\ [][HookNext]_vars

\* ---------------------------------------------- buy_user_book, step by step
\* POST requests of buy_user_book handled at the same time, one per buyer.  The
\* view runs outside any transaction: the lookup of the listing, the creation of
\* the order and the save of the listing are steps of their own.
Purchases   == {1, 2, 3}
BuyListings == {1, 2}

PurchaseAt(pc, k) == [pc |-> pc, user_book |-> k]

\* get_object_or_404(UserBook, pk=pk, is_available=True): 404 ends the request
BuyGet(p) ==
    /\ race[p].pc = "get"
    /\ race' = [race EXCEPT ![p].pc = IF race[p].user_book \in available
                                       THEN "create" ELSE "done"]
    /\ UNCHANGED <<storeVars, cache, now, cacheHist, lastSetAt, last, pay, forum, ai, addr>>

\* Order.objects.create(user=request.user, user_book=user_book, status='confirmed')
BuyCreate(p) ==
    /\ race[p].pc = "create"
    /\ orders' = Append(orders, OrderRow(p, NoId, race[p].user_book, "confirmed"))
    /\ race' = [race EXCEPT ![p].pc = "save"]
    /\ UNCHANGED <<books, bookTerms, nextBookId, userBooks, available, nextUserBookId, reviews,
                   cache, now, cacheHist, lastSetAt, last, pay, forum, ai, addr>>

\* user_book.is_available = False; user_book.save()
BuySave(p) ==
    /\ race[p].pc = "save"
    /\ available' = available \ {race[p].user_book}
    /\ race' = [race EXCEPT ![p].pc = "done"]
    /\ UNCHANGED <<books, bookTerms, nextBookId, userBooks, nextUserBookId, orders, reviews,
                   cache, now, cacheHist, lastSetAt, last, pay, forum, ai, addr>>

\* two listings on sale and a request of each buyer for one of them
BuyInit ==
    /\ books = {} /\ bookTerms = <<>> /\ nextBookId = 1
    /\ userBooks = BuyListings /\ available = BuyListings /\ nextUserBookId = 3
    /\ orders = <<>> /\ reviews = <<>>
    /\ cache = NoEntry /\ now = 0 /\ cacheHist = "never" /\ lastSetAt = -1
    /\ last = NoCall
    /\ race \in [Purchases -> {PurchaseAt("get", k) : k \in BuyListings}]
    /\ pay = NoPay /\ forum = NoForum /\ ai = NoAi /\ addr = NoAddr

BuyNext ==
    \/ \E p \in Purchases : BuyGet(p)
    \/ \E p \in Purchases : BuyCreate(p)
    \/ \E p \in Purchases : BuySave(p)

SpecBuy == BuyInit /\ [][BuyNext]_vars

\* --------------------------------------------- Address.save, set_default_address
MaxAddresses == 3       \* Address rows ever created

AddrUsers == {1, 2}

\* Address(user, is_default); live is FALSE once the row is deleted
AddressRow(u, d) == [user |-> u, is_default |-> d, live |-> TRUE]

\* SaveAddress without the update of the other rows
SaveAddressNoClear(rows, pk, row) ==
    IF pk \in DOMAIN rows THEN [rows EXCEPT ![pk] = row] ELSE Append(rows, row)

\* Address.save: when the instance is the default, the other default rows of
\* its user are updated to is_default = False; then the row is written
SaveAddress(rows, pk, row) ==
    LET cleared == IF row.is_default
                   THEN [i \in DOMAIN rows |->
                            IF /\ rows[i].live /\ rows[i].user = row.user
                               /\ rows[i].is_default /\ i # pk
                            THEN [rows[i] EXCEPT !.is_default = FALSE] ELSE rows[i]]
                   ELSE rows
    IN  IF pk \in DOMAIN rows THEN [cleared EXCEPT ![pk] = row] ELSE Append(cleared, row)

\* profile (POST add_address): Address.objects.create(user=request.user, ...)
AddAddress(u, d) ==
    /\ Len(addr) < MaxAddresses
    /\ addr' = SaveAddress(addr, Len(addr) + 1, AddressRow(u, d))
    /\ last' = [op |-> "add_address", user |-> u, address |-> Len(addr) + 1,
                is_default |-> d, found |-> TRUE, before |-> addr]
    /\ UNCHANGED <<storeVars, cache, now, cacheHist, lastSetAt, race, pay, forum, ai>>

\* the address get_object_or_404(Address, id=address_id, user=request.user) finds
OwnAddress(u, a) == a \in DOMAIN addr /\ addr[a].live /\ addr[a].user = u

\* set_default_address: Http404 is caught and answered with success = False
SetDefaultAddress(u, a) ==
    /\ addr' = IF OwnAddress(u, a)
               THEN SaveAddress(addr, a, [addr[a] EXCEPT !.is_default = TRUE])
               ELSE addr
    /\ last' = [op |-> "set_default_address", user |-> u, address |-> a,
                is_default |-> TRUE, found |-> OwnAddress(u, a), before |-> addr]
    /\ UNCHANGED <<storeVars, cache, now, cacheHist, lastSetAt, race, pay, forum, ai>>

\* delete_address
DeleteAddress(u, a) ==
    /\ addr' = IF OwnAddress(u, a) THEN [addr EXCEPT ![a].live = FALSE] ELSE addr
    /\ last' = [op |-> "delete_address", user |-> u, address |-> a,
                is_default |-> FALSE, found |-> OwnAddress(u, a), before |-> addr]
    /\ UNCHANGED <<storeVars, cache, now, cacheHist, lastSetAt, race, pay, forum, ai>>

\* no address yet
AddrInit ==
    /\ books = {} /\ bookTerms = <<>> /\ nextBookId = 1
    /\ userBooks = {} /\ available = {} /\ nextUserBookId = 1
    /\ orders = <<>> /\ reviews = <<>>
    /\ cache = NoEntry /\ now = 0 /\ cacheHist = "never" /\ lastSetAt = -1
    /\ last = NoCall
    /\ AuxIdle

AddrNext ==
    \/ \E u \in AddrUsers, d \in BOOLEAN : AddAddress(u, d)
    \/ \E u \in AddrUsers, a \in 1..MaxAddresses : SetDefaultAddress(u, a)
    \/ \E u \in AddrUsers, a \in 1..MaxAddresses : DeleteAddress(u, a)

SpecAddr == AddrInit /\ [][AddrNext]_vars

\* ================================================================ claims
HybridOps == {"hybrid_recommendation", "get_personalized_recommendations",
              "get_recommendations"}

ThirtyMinutes == 30 * 60

\* C1: the first hybrid_recommendation call after train_recommendation_model has
\* deleted the entry runs the bundle build on the current store and never
\* computes with a cached bundle: the bundle it uses and stores is the one built
\* from the store as it is now, and when that build raises it uses no bundle at
\* all and answers from the except branch.
InvalidationForcesRebuild ==
    (last.op \in HybridOps /\ last.hist = "invalidated") =>
        /\ last.built
        /\ last.stored =>
              /\ last.bundle = BuildBundle(now)
              /\ cache.present /\ cache.value = last.bundle
        /\ ~last.stored => ~last.bundle.built /\ last.fellBack

\* a call that rebuilt after an invalidation had removed an earlier bundle
InvalidatedThenRebuilt ==
    /\ last.op \in HybridOps
    /\ last.hist = "invalidated"
    /\ last.setAt # -1
    /\ last.stored

\* C2 as stated: every call made less than 30 minutes after a build is answered
\* without rebuilding.
WithinTtlAnsweredFromCache ==
    (last.op \in HybridOps /\ last.setAt # -1 /\ now - last.setAt < ThirtyMinutes)
        => ~last.built

\* C2 amended: a call that finds no entry (never stored, deleted, or dropped after
\* a failed build) runs the build and, when the build succeeds, stores the bundle
\* for 30 minutes; a call made less than 30 minutes after the cache.set of an
\* entry that was not deleted since is answered from that entry, which stays as
\* it is; a call made 30 minutes or more after it rebuilds, and a successful
\* build replaces the entry as a whole.
BundleEntryLifecycle ==
    last.op \in HybridOps =>
        LET live == last.hist = "stored"
            age  == now - last.setAt
        IN  /\ ~live => last.entry = "MISSING" /\ last.built
            /\ (live /\ age < ThirtyMinutes) =>
                  /\ last.entry = "FRESH"
                  /\ ~last.built /\ ~last.stored
                  /\ cache.present /\ cache.value = last.bundle
                  /\ cache.expires = last.setAt + ThirtyMinutes
            /\ (live /\ age >= ThirtyMinutes) => last.entry = "STALE" /\ last.built
            /\ last.built => (last.stored <=> BuildBundle(now).ok)
            /\ last.stored =>
                  cache = [present |-> TRUE, value |-> BuildBundle(now),
                           expires |-> now + ThirtyMinutes]
            /\ (last.built /\ ~last.stored) => ~cache.present

\* a call that found the entry expired and replaced it
StaleEntryReplaced ==
    /\ last.op \in HybridOps
    /\ last.entry = "STALE"
    /\ now - last.setAt >= ThirtyMinutes
    /\ last.stored

\* the components of a bundle come from one build and fit each other
OneBuild(b) ==
    /\ b.content_df.build = b.user_item_df.build
    /\ b.similarity_matrix.build = b.user_item_df.build
    /\ b.item_ids.build = b.user_item_df.build
    /\ b.item_ids.ids = [i \in DOMAIN b.content_df.rows |-> b.content_df.rows[i].id]
    /\ DOMAIN b.similarity_matrix.m = DOMAIN b.item_ids.ids

\* C3: the cached bundle is absent or holds an interaction matrix, feature set,
\* similarity matrix and item-key list of one and the same build, and so does
\* the bundle every hybrid_recommendation call computes with.
BundleFromOneBuild ==
    /\ cache.present => OneBuild(cache.value)
    /\ (last.op \in HybridOps /\ last.bundle.built) => OneBuild(last.bundle)

\* a call that replaced an expired entry, whose components it could have kept
ExpiredBundleRebuilt ==
    /\ last.op \in HybridOps
    /\ last.entry = "STALE"
    /\ last.stored
    /\ cache.present
    /\ cache.value.user_item_df.build = now

\* C4: a call whose bundle build fails leaves no cache entry, takes the except
\* branch and does what get_popular_books(top_n) does; the next call runs the
\* build again.
FailedBuildFallsBack ==
    /\ (last.op \in HybridOps /\ last.built /\ ~last.stored) =>
          /\ ~cache.present
          /\ last.fellBack
          /\ IF GetPopularBooks(last.top_n) = {} THEN last.raised
             ELSE ~last.raised /\ last.result \in GetPopularBooks(last.top_n)
    /\ (last.op \in HybridOps /\ last.hist = "build_failed") => last.built

\* a second call in a row whose build failed and that returned the popular list
FailedBuildRetried ==
    /\ last.op \in HybridOps
    /\ last.hist = "build_failed"
    /\ last.built /\ ~last.stored
    /\ last.result # <<>>

\* the user has no order that build_user_item_matrix counts
ColdStart(u) == \A i \in DOMAIN orders : orders[i].user = u => orders[i].status \notin CountedStatuses

\* C5 as stated: for a user without counted orders get_personalized_recommendations
\* returns a list that get_popular_books returns on the same store.
ColdStartReturnsPopular ==
    (last.op = "get_personalized_recommendations" /\ last.top_n >= 0
        /\ ColdStart(last.user_id))
        => (~last.raised /\ last.result \in GetPopularBooks(last.top_n))

\* C6 as stated: no call of the three entry points lets an exception reach its
\* caller.
NeverRaises ==
    last.op \in HybridOps => ~last.raised

NonNegativeTopNs == {n \in TopNs : n >= 0}

\* C7: with top_n >= 0 a call returns, on the try path and on the except path,
\* a list of at most top_n entries without raising, and the empty list when
\* top_n = 0; so does every call that could be made in the current state.
AtMostTopN ==
    /\ (last.op \in HybridOps /\ last.top_n >= 0) =>
          /\ ~last.raised
          /\ Len(last.result) <= last.top_n
    /\ \A u \in UserIds \cup {NoId}, b \in BookIds \cup {NoId}, n \in NonNegativeTopNs :
          \A out \in Returns(HybridStep(u, b, n), n) :
              ~out[1] /\ Len(out[2]) <= n

\* a call with top_n = 0 that took the except branch on a catalog with books
ZeroTopNFallback ==
    /\ last.op \in HybridOps
    /\ last.top_n = 0
    /\ last.fellBack
    /\ books # {}
    /\ ~last.raised /\ last.result = <<>>

\* C8: the list the merge returns holds no object twice, whatever the two
\* candidate lists are.
NoDuplicateItems ==
    last.op = "merge" =>
        \A i, j \in DOMAIN last.result : last.result[i] = last.result[j] => i = j

\* a merge where a key of the collaborative half is also in the content half,
\* resolves to an object, and the result holds a second object as well
SharedKeyMergedOnce ==
    /\ last.op = "merge"
    /\ \E i \in DOMAIN last.collab, j \in DOMAIN last.content :
          /\ last.collab[i][1] = last.content[j][1]
          /\ ResolveItem(last.collab[i][1]) # <<>>
          /\ ResolveItem(last.collab[i][1])[1] \in Range(last.result)
    /\ Len(last.result) >= 2

\* C9 as stated: the list get_recommendations(X, top_n) returns never holds X.
NeverRecommendsSeed ==
    (last.op = "get_recommendations" /\ ~last.raised)
        => BookObj(last.book_id) \notin Range(last.result)

\* C10 as stated: every column of the interaction matrix of the cached bundle is
\* a key of its item list.
ColumnsAreCatalogKeys ==
    cache.present =>
        Range(cache.value.user_item_df.df.columns) \subseteq Range(cache.value.item_ids.ids)

\* a bundle without the marks of the build that made it
Untagged(b) ==
    [ok |-> b.ok, df |-> b.user_item_df.df, rows |-> b.content_df.rows,
     m |-> b.similarity_matrix.m, ids |-> b.item_ids.ids]

\* what one call alone returns on a missing entry, as <<raised, list>>
AloneReturns(user_id, book_id, top_n) ==
    IF BuildBundle(now).ok /\ ~Rank(BuildBundle(now), user_id, book_id, top_n).raised
    THEN {<<FALSE, Rank(BuildBundle(now), user_id, book_id, top_n).result>>}
    ELSE IF GetPopularBooks(top_n) = {} THEN {<<TRUE, <<>>>>}
    ELSE {<<FALSE, r>> : r \in GetPopularBooks(top_n)}

\* C11: when requests race on a missing or expired entry and the store does not
\* change, every request computes with the bundle a single build gives, the
\* entry they leave is that bundle (no entry when the build raises), and each
\* request returns what it would return alone.
RacingBuildsAgree ==
    /\ \A p \in DOMAIN race :
          /\ race[p].bundle.built => Untagged(race[p].bundle) = Untagged(BuildBundle(now))
          /\ race[p].pc = "done" =>
                <<race[p].raised, race[p].result>>
                    \in AloneReturns(race[p].user_id, race[p].book_id, race[p].top_n)
    /\ (race # NoRace /\ \A p \in DOMAIN race : race[p].pc = "done") =>
          IF BuildBundle(now).ok
          THEN cache.present /\ Untagged(cache.value) = Untagged(BuildBundle(now))
          ELSE ~cache.present

\* both requests missed the expired entry, both built and both wrote
BothRequestsRebuilt ==
    /\ race # NoRace
    /\ \A p \in DOMAIN race : race[p].pc = "done" /\ race[p].stored
    /\ cache.present /\ cache.value # StaleBundle

\* C12 as stated: every delivery of a payment.captured webhook answers ok; after
\* it the order of that razorpay order id is confirmed with the payment id; the
\* delivery that applies the payment takes the quantity off the stock of the
\* book; a delivery that repeats the one before changes nothing.
WebhookRedeliveryIdempotent ==
    last.op = "api_payment_webhook" =>
        /\ last.response = "ok"
        /\ \A i \in WebhookOrders(last.order_id) :
              /\ pay.orders[i].status = "confirmed"
              /\ pay.orders[i].razorpay_payment_id = last.payment_id
              /\ (last.before.orders[i].razorpay_payment_id # last.payment_id
                    /\ pay.orders[i].book # NoId) =>
                    pay.stock[pay.orders[i].book]
                        = last.before.stock[pay.orders[i].book] - pay.orders[i].quantity
        /\ last.repeat => pay = last.before

\* C13: a call of api_process_payment that repeats the call before it, with
\* the same payment id, changes no order, no stock and no PaymentEvent, and
\* returns success when its signature verifies.
ProcessPaymentRepeatIdempotent ==
    (last.op = "api_process_payment" /\ last.repeat) =>
        /\ pay = last.before
        /\ last.verified => last.response = "success"

\* the second of two verified calls, the first of which confirmed an order of
\* a book and took it off the stock
PaymentProcessedTwice ==
    /\ last.op = "api_process_payment" /\ last.repeat /\ last.verified
    /\ \E e \in DOMAIN pay.events :
          /\ pay.events[e].event = "payment_processed"
          /\ pay.events[e].payment_id = last.payment_id
          /\ \E k \in DOMAIN pay.events[e].order_ids :
                LET o == pay.orders[pay.events[e].order_ids[k]]
                IN  /\ o.status = "confirmed"
                    /\ o.razorpay_payment_id = last.payment_id
                    /\ pay.stock[o.book] = InitialStock[o.book] - o.quantity

\* the order is for the item of that key
OrderRefersTo(o, key) ==
    \/ o.book # NoId /\ key = BookKey(o.book)
    \/ o.user_book # NoId /\ key = UserBookKey(o.user_book)

\* C14 as stated: the matrix has weight 1.0 in cell (user, item) exactly when
\* the user has a confirmed or delivered order for the item, and it is the
\* empty matrix when no order is counted.
CellsArePurchases ==
    last.op = "build_user_item_matrix" =>
        /\ \A u \in UserIds, key \in ItemKeys :
              <<u, key>> \in last.df.cells
                  <=> \E i \in DOMAIN orders :
                         /\ orders[i].user = u
                         /\ orders[i].status \in CountedStatuses
                         /\ OrderRefersTo(orders[i], key)
        /\ (\A i \in DOMAIN orders : orders[i].status \notin CountedStatuses)
              => last.df = EmptyFrame

\* exactly one of book and user_book is set
WellFormed(o) == (o.book = NoId) # (o.user_book = NoId)

\* C15 as stated: the matrix is the one of the counted orders that reference
\* exactly one of book and user_book; an order with both or neither adds
\* nothing.
MalformedOrdersSkipped ==
    last.op = "build_user_item_matrix" =>
        last.df = UserItemData(SelectSeq(orders, LAMBDA o :
                                   o.status \in CountedStatuses /\ WellFormed(o)),
                               EmptyFrame)

\* C16 as stated: a hit of the per-book cache returns the list that was
\* computed for the book_id and the top_n of the call.
HitIsForSameQuery ==
    (last.op = "ai_get_recommendations" /\ last.hit)
        => last.computedFor = <<last.book_id, last.top_n>>

\* C17: after any sequence of like_post and like_comment requests the
\* like_count of every post and of every comment is the number of its like
\* records, and the first like of a post or comment answers like_count = 1.
LikeCountIsNumberOfLikes ==
    /\ \A p \in DOMAIN forum.postCount :
          forum.postCount[p] = Cardinality({l \in forum.postLikes : l[2] = p})
    /\ \A c \in DOMAIN forum.commentCount :
          forum.commentCount[c] = Cardinality({l \in forum.commentLikes : l[2] = c})
    /\ (last.op = "like_post" /\ forum.postLikes = {<<last.user, last.id>>})
          => last.liked /\ last.like_count = 1
    /\ (last.op = "like_comment" /\ forum.commentLikes = {<<last.user, last.id>>})
          => last.liked /\ last.like_count = 1

\* a comment two users had liked, just unliked by one of them, while a post
\* holds the likes of two users
CommentUnlikedByOneOfTwo ==
    /\ last.op = "like_comment" /\ ~last.liked
    /\ last.like_count = 1
    /\ forum.commentCount[last.id] = 1
    /\ \E p \in PostIds : forum.postCount[p] = 2

\* the Pearson correlation of the rows of two users over the columns of the
\* matrix, as the signed square scaled by SimScale
RowCorr(df, u, v) ==
    Pearson(Len(df.columns),
            Cardinality({c \in df.cells : c[1] = u}),
            Cardinality({c \in df.cells : c[1] = v}),
            Cardinality({c \in df.cells : c[1] = u /\ <<v, c[2]>> \in df.cells}),
            Cardinality({c \in df.cells : c[1] = u}),
            Cardinality({c \in df.cells : c[1] = v}))

\* the items a neighbour of correlation > 0.1 purchased and the user did not
NeighbourItems(df, u) ==
    {key \in Range(df.columns) :
        /\ <<u, key>> \notin df.cells
        /\ \E v \in Range(df.index) \ {u} :
              /\ <<v, key>> \in df.cells
              /\ ~RowCorr(df, u, v).nan
              /\ RowCorr(df, u, v).v > SimThreshold}

\* C18 as stated, for its candidates: the items that get a collaborative score
\* are the items that a neighbour of correlation > 0.1 purchased and the target
\* user did not.
CandidatesAreNeighbourItems ==
    (last.op = "collaborative" /\ ~last.raised) =>
        {last.recs[i][1] : i \in DOMAIN last.recs} = NeighbourItems(last.df, last.user_id)

\* item keys as strings: book_<id> sorts before user_book_<id>
KeyBefore(a, b) == IF a[1] = b[1] THEN a[2] < b[2] ELSE a[1] = "book"

RECURSIVE KeepFirst(_, _)
KeepFirst(recs, seen) ==
    IF recs = <<>> THEN <<>>
    ELSE IF Head(recs)[1] \in seen THEN KeepFirst(Tail(recs), seen)
    ELSE <<Head(recs)>> \o KeepFirst(Tail(recs), seen \cup {Head(recs)[1]})

\* C20 as stated: the merged list is the collaborative half followed by the
\* content half, without the entries whose item key occurred earlier, in the
\* order of the halves, cut at top_n.
MergedIsCutConcatenation ==
    last.op = "merge" =>
        last.final = Slice(KeepFirst(last.collab \o last.content, {}), last.top_n)

\* the candidates of the content half: the entries of the seed's row, the seed's
\* own excepted, with a similarity > 0.1
ContentCandidates(sim, item_ids, idx) ==
    {<<item_ids[i], sim[idx][i]>> : i \in {j \in DOMAIN item_ids : j # idx /\ sim[idx][j] > SimThreshold}}

\* C21: with a seed found in the item list the content half holds only items
\* other than the seed of similarity > 0.1, each once, best first, and it is the
\* cut at floor(top_n / 2) of the whole ranking: as long as the cut of a list of
\* all candidates, and no candidate left out is better than one kept.  With no
\* seed, or a seed that is not in the item list, the content half is empty.
ContentHalfIsCutRanking ==
    last.op = "content_based" =>
        LET idx  == IndexOf(last.item_ids, BookKey(last.book_id))
            cand == ContentCandidates(last.similarity_matrix, last.item_ids, idx)
        IN  IF last.book_id = NoId \/ idx = 0 THEN last.recs = <<>>
            ELSE /\ Range(last.recs) \subseteq cand
                 /\ \A i, j \in DOMAIN last.recs :
                        /\ last.recs[i] = last.recs[j] => i = j
                        /\ i < j => last.recs[i][2] >= last.recs[j][2]
                 /\ Len(last.recs)
                        = Len(Slice([i \in 1..Cardinality(cand) |-> i], last.top_n \div 2))
                 /\ \A c \in cand \ Range(last.recs), i \in DOMAIN last.recs :
                        c[2] <= last.recs[i][2]

\* a call with top_n = 2 whose seed has two candidates, the better one later in
\* the item list: the content half is that one alone
BetterLaterCandidateKept ==
    /\ last.op = "content_based"
    /\ last.top_n = 2
    /\ \E idx, i, j \in DOMAIN last.item_ids :
          /\ last.item_ids[idx] = BookKey(last.book_id)
          /\ i < j /\ i # idx /\ j # idx
          /\ last.similarity_matrix[idx][i] > SimThreshold
          /\ last.similarity_matrix[idx][j] > last.similarity_matrix[idx][i]
          /\ last.recs = <<<<last.item_ids[j], last.similarity_matrix[idx][j]>>>>

\* the stored row an item key names, if there is one
Stored(key) ==
    \/ key[1] = "book" /\ key[2] \in books
    \/ key[1] = "user_book" /\ key[2] \in userBooks

StoredObj(key) == IF key[1] = "book" THEN BookObj(key[2]) ELSE UserBookObj(key[2])

\* C22: a call whose merged list holds a key without a stored row returns the
\* objects of the other keys, in the order of the merged list, and neither
\* raises nor takes the except branch.
UnresolvedKeyOmittedAlone ==
    (last.op \in HybridOps /\ \E i \in DOMAIN last.final : ~Stored(last.final[i][1])) =>
        LET kept == SelectSeq(last.final, LAMBDA e : Stored(e[1]))
        IN  /\ ~last.raised
            /\ ~last.fellBack
            /\ last.result = [i \in DOMAIN kept |-> StoredObj(kept[i][1])]

\* a call answered from a cached bundle whose merged list starts with a book
\* deleted since the build and goes on with an item that is still stored
DeletedBookPassedOver ==
    /\ last.op \in HybridOps
    /\ ~last.built
    /\ Len(last.final) >= 2
    /\ ~Stored(last.final[1][1])
    /\ Stored(last.final[2][1])
    /\ last.result = <<StoredObj(last.final[2][1])>>

\* the number of order records of a book
OrderCount(b) == Cardinality({i \in DOMAIN orders : orders[i].book = b})

\* a ranks strictly before b by (order count, average rating), both descending
RanksBefore(a, b) ==
    \/ OrderCount(a) > OrderCount(b)
    \/ /\ OrderCount(a) = OrderCount(b)
       /\ AvgRating(a)[2] > 0 /\ AvgRating(b)[2] > 0
       /\ AvgRating(a)[1] * AvgRating(b)[2] > AvgRating(b)[1] * AvgRating(a)[2]

\* C23 as stated: get_popular_books(top_n) returns the first top_n books of the
\* catalog ranked by number of order records, then by average rating: no book
\* of the list ranks before an earlier one and no book left out ranks before a
\* listed one.
PopularByOrderCountThenRating ==
    last.op = "get_popular_books" =>
        /\ Len(last.result) = (IF last.top_n < Cardinality(books) THEN last.top_n
                               ELSE Cardinality(books))
        /\ \A i, j \in DOMAIN last.result :
               i < j => ~RanksBefore(last.result[j][2], last.result[i][2])
        /\ \A b \in books, i \in DOMAIN last.result :
               BookObj(b) \notin Range(last.result) => ~RanksBefore(b, last.result[i][2])

\* C24 as stated: for two users with the same purchases the correlation is
\* defined and each is the other's most-correlated neighbour: the neighbours of
\* the one, NaN dropped, hold the other with a correlation no neighbour exceeds.
TwinsAreTopNeighbours ==
    (last.op = "collaborative" /\ last.user_id \in Twins) =>
        \E i \in DOMAIN last.similar_users :
            /\ \E v \in Twins \ {last.user_id} : last.similar_users[i][1] = IntLabel(v)
            /\ \A j \in DOMAIN last.similar_users :
                   last.similar_users[j][2] <= last.similar_users[i][2]

\* a build of train_recommendation_model raises: there are content rows and
\* none of them has a word the vectorizer keeps
TrainBuildRaises ==
    /\ books \cup available # {}
    /\ \A b \in books : bookTerms[b] = {}
    /\ \A k \in available : UserBookTerms(k) = {}

\* C25: train_recommendation_model returns True and leaves no bundle entry when
\* its builds succeed, whatever the age of the entry was; when a build raises
\* it returns False and the entry is the one found before the call.
TrainInvalidatesOrLeavesEntry ==
    last.op = "train_recommendation_model" =>
        /\ last.result = ~TrainBuildRaises
        /\ last.result => ~cache.present
        /\ ~last.result => cache = last.before

\* a call that returned True and removed an entry that had not expired
FreshEntryInvalidated ==
    /\ last.op = "train_recommendation_model"
    /\ last.result
    /\ last.before.present /\ now < last.before.expires
    /\ ~cache.present

\* C26 as stated: a request that arrives after an invalidation has completed is
\* not answered from a bundle built before it: the catalog only grows here, so
\* the bundle such a request ranks with lists every book the catalog held when
\* the request arrived.
NoAnswerFromOlderBundle ==
    \A p \in DOMAIN race :
        ("catalog" \in DOMAIN race[p] /\ race[p].pc \in {"rank", "done"} /\ race[p].bundle.built) =>
            \A b \in race[p].catalog : BookKey(b) \in Range(race[p].bundle.item_ids.ids)

\* C27 as stated: however the steps of two deliveries of one webhook interleave,
\* the stock of the book goes down by the quantity of the order at most once
\* and at most one PaymentEvent of the payment is recorded.
ConcurrentDeliveriesApplyOnce ==
    \A d \in DOMAIN race :
        /\ Cardinality(EventsOf(race[d].payment_id)) <= 1
        /\ \A i \in WebhookOrders(race[d].order_id) :
               pay.stock[pay.orders[i].book] + pay.orders[i].quantity
                   >= InitialStock[pay.orders[i].book]

\* the quantities of the paid orders of a book
RECURSIVE PaidQuantity(_, _)
PaidQuantity(b, os) ==
    IF os = <<>> THEN 0
    ELSE (IF Head(os).book = b /\ Head(os).razorpay_payment_id # NoRef
          THEN Head(os).quantity ELSE 0) + PaidQuantity(b, Tail(os))

\* every order paid so far and every event recorded so far is of one payment id
OnePayment ==
    \E pid \in PaymentIds :
        /\ \A i \in DOMAIN pay.orders : pay.orders[i].razorpay_payment_id \in {NoRef, pid}
        /\ \A i \in DOMAIN pay.events : pay.events[i].payment_id = pid

\* C28 as stated: over any sequence of api_process_payment and
\* api_payment_webhook calls of one payment the stock of a book goes down at
\* most once for each of its orders, and every such call answers with success,
\* also when several orders carry the razorpay order id.
MixedCallsApplyOnceAndSucceed ==
    /\ (last.op \in {"api_process_payment", "api_payment_webhook"} /\ last.verified) =>
           last.response \in {"success", "ok"}
    /\ OnePayment =>
           \A b \in BookIds : pay.stock[b] + PaidQuantity(b, pay.orders) >= InitialStock[b]

\* C29 as stated: however buy_user_book requests for a listing follow or
\* interleave, at most one confirmed order refers to the listing, and once a
\* purchase is through the listing is not available any more.
ListingSoldAtMostOnce ==
    \A k \in userBooks :
        /\ Cardinality({i \in DOMAIN orders :
                           orders[i].user_book = k /\ orders[i].status = "confirmed"}) <= 1
        /\ (/\ \E i \in DOMAIN orders : orders[i].user_book = k
            /\ \A p \in DOMAIN race : ~(race[p].user_book = k /\ race[p].pc = "save"))
               => k \notin available

AddressOps == {"add_address", "set_default_address", "delete_address"}

\* the addresses of a user that are its default
Defaults(rows, u) == {i \in DOMAIN rows : rows[i].live /\ rows[i].user = u /\ rows[i].is_default}

\* C30: after any sequence of address operations every user has at most one
\* default address; a save with is_default = True makes the saved address the
\* one default of its user and leaves the rows of the other users as they were;
\* any other operation leaves the defaults of the remaining rows as they were,
\* so that the default of a user is the address saved last with is_default.
OneDefaultPerUser ==
    /\ \A u \in AddrUsers : Cardinality(Defaults(addr, u)) <= 1
    /\ last.op \in AddressOps =>
          IF last.found /\ last.is_default
          THEN /\ Defaults(addr, last.user) = {last.address}
               /\ \A i \in DOMAIN last.before :
                      last.before[i].user # last.user => addr[i] = last.before[i]
          ELSE \A i \in DOMAIN last.before :
                   addr[i].live => addr[i] = last.before[i]

\* set_default_address on an address of a user whose default was another one,
\* while the other user has a default of its own
DefaultMovedWithinUser ==
    /\ last.op = "set_default_address"
    /\ last.found
    /\ Defaults(last.before, last.user) # {}
    /\ last.address \notin Defaults(last.before, last.user)
    /\ Defaults(addr, last.user) = {last.address}
    /\ \E v \in AddrUsers \ {last.user} : Defaults(addr, v) # {}

====
